---- MODULE Spec2Model ----
(***************************************************************************)
(* Master Job Manager, application tracker: reconciliation of job          *)
(* application e-mails into the "Applications" sheet                       *)
(* (MJM_processJobApplicationEmails), the Gmail label workflow             *)
(* (MJM_applyFinalLabelsToThreads) and the staleness sweep                 *)
(* (MJM_markStaleApplicationsAsRejected).                                  *)
(*                                                                         *)
(* Time is counted in weeks.  A message's date is the week it arrived in;  *)
(* message ids are given in arrival order, so among messages of one week   *)
(* the smaller id is the earlier message.                                  *)
(***************************************************************************)
EXTENDS Integers, Sequences, FiniteSets, TLC

\* ---------------------------------------------------------------- bounds
NumMsgs == 3
NumThreads == 2
MaxRows == 2
MaxNow == 8

\* ------------------------------------------------------ program constants
MANUAL_REVIEW_NEEDED_TEXT == "N/A - Manual Review"
MJM_APP_DEFAULT_STATUS == "Applied"
MJM_APP_REJECTED_STATUS == "Rejected"
MJM_APP_OFFER_STATUS == "Offer Received"
MJM_APP_ACCEPTED_STATUS == "Offer Accepted"
MJM_APP_INTERVIEW_STATUS == "Interview Scheduled"
MJM_APP_ASSESSMENT_STATUS == "Assessment/Screening"
MJM_APP_VIEWED_STATUS == "Application Viewed"
UPDATE_OTHER == "Update/Other"
\* A "Last Update Date" cell that is empty or holds no valid date.
NoDate == -1
WITHDRAWN == "Withdrawn"

MJM_MASTER_GMAIL_LABEL_PARENT == "Master Job Manager"
MJM_TRACKER_GMAIL_LABEL_PARENT == "Master Job Manager/Job Application Tracker"
MJM_TRACKER_GMAIL_LABEL_TO_PROCESS ==
  "Master Job Manager/Job Application Tracker/To Process"
MJM_TRACKER_GMAIL_LABEL_PROCESSED ==
  "Master Job Manager/Job Application Tracker/Processed"
MJM_TRACKER_GMAIL_LABEL_MANUAL_REVIEW ==
  "Master Job Manager/Job Application Tracker/Manual Review Needed"

MAX_THREADS_TO_SCAN == 15
MAX_MESSAGES_TO_PROCESS_THIS_RUN == 20
MJM_STALE_WEEKS_THRESHOLD == 7

\* The status hierarchy table.
MJM_APP_STATUS_HIERARCHY ==
  (MANUAL_REVIEW_NEEDED_TEXT :> -1) @@ (UPDATE_OTHER :> 0) @@
  (MJM_APP_DEFAULT_STATUS :> 1) @@ (MJM_APP_VIEWED_STATUS :> 2) @@
  (MJM_APP_ASSESSMENT_STATUS :> 3) @@ (MJM_APP_INTERVIEW_STATUS :> 4) @@
  (MJM_APP_OFFER_STATUS :> 5) @@ (MJM_APP_REJECTED_STATUS :> 5) @@
  (MJM_APP_ACCEPTED_STATUS :> 6)

MJM_STALE_FINAL_STATUSES_FOR_CHECK ==
  {MJM_APP_REJECTED_STATUS, MJM_APP_ACCEPTED_STATUS, WITHDRAWN}

\* excludedPeak / excludedPInit
excludedPeak ==
  {MJM_APP_REJECTED_STATUS, MJM_APP_ACCEPTED_STATUS, MANUAL_REVIEW_NEEDED_TEXT, UPDATE_OTHER}

\* ------------------------------------------------------------ value sets
\* Statuses an event can carry: the hierarchy's statuses and one status with
\* no hierarchy entry (the extractor's answer is free text).
Statuses == (DOMAIN MJM_APP_STATUS_HIERARCHY) \cup {WITHDRAWN}

Companies == {"Acme"}
Titles == {"Engineer"}
CompanyVals == Companies \cup {MANUAL_REVIEW_NEEDED_TEXT}
TitleVals == Titles \cup {MANUAL_REVIEW_NEEDED_TEXT}

Msgs == 1..NumMsgs
Threads == 1..NumThreads
WorkflowLabels ==
  {MJM_TRACKER_GMAIL_LABEL_TO_PROCESS, MJM_TRACKER_GMAIL_LABEL_PROCESSED,
   MJM_TRACKER_GMAIL_LABEL_MANUAL_REVIEW}

\* String.prototype.toLowerCase on the strings of the model.
toLowerCase(s) ==
  CASE s = "Acme" -> "acme"
    [] s = "ACME" -> "acme"
    [] s = "Engineer" -> "engineer"
    [] s = "Analyst" -> "analyst"
    [] s = MANUAL_REVIEW_NEEDED_TEXT -> "n/a - manual review"
    [] OTHER -> s

\* MJM_APP_STATUS_HIERARCHY[s] ?? d
RankOr(s, d) ==
  IF s \in DOMAIN MJM_APP_STATUS_HIERARCHY THEN MJM_APP_STATUS_HIERARCHY[s] ELSE d

VARIABLES
  now,                          \* current week
  msgThread,                    \* msgThread[m]: thread of message m
  msgDate,                      \* msgDate[m]: msg.getDate()
  labels,                       \* labels[t]: workflow labels on thread t
  rows,                         \* data rows of the "Applications" sheet
  pc,                           \* "idle" | "loop" | "labels"
  applicationDataCache,         \* company key -> entries (this run)
  newMessagesList,              \* messages to analyse in this run, sorted
  idx,                          \* loop index (1-based)
  processedMessagesCountThisRun,
  threadProcessingOutcomesMap,  \* thread -> "none" | "done" | "manual"
  lastStep,                     \* what the last loop iteration did
  reconciledEver,               \* messages written to the sheet so far
  writtenThisRun,               \* messages written in the current/last run
  failedThisRun,                \* messages whose iteration threw, this run
  observedPeak                  \* per row: best substantive status seen

\* State outside the sheet and the mailbox.
VARIABLES
  triggers,                     \* ScriptApp.getProjectTriggers(), in order
  lastSetup,                    \* the last trigger-management call
  gemini,                       \* the primary extractor's call for one message
  sweep,                        \* a staleness sweep under way
  leadThread,                   \* leadThread[m]: thread of lead message m
  leadLabels,                   \* leadLabels[t]: lead labels on thread t
  leadRows,                     \* rows of the "Potential Job Leads" sheet
  leadsRun,                     \* the job-leads run under way
  leadHandled                   \* per lead message: its last processing

triggerVars == <<triggers, lastSetup>>
leadsVars == <<leadThread, leadLabels, leadRows, leadsRun, leadHandled>>
sideVars == <<triggerVars, gemini, sweep, leadsVars>>

coreVars ==
  <<now, msgThread, msgDate, labels, rows, pc, applicationDataCache,
    newMessagesList, idx, processedMessagesCountThisRun,
    threadProcessingOutcomesMap, lastStep, reconciledEver, writtenThisRun,
    failedThisRun, observedPeak>>

vars == <<coreVars, sideVars>>

runVars ==
  <<applicationDataCache, newMessagesList, idx, processedMessagesCountThisRun,
    threadProcessingOutcomesMap, lastStep, writtenThisRun, failedThisRun>>

NoStep == [kind |-> "none", msg |-> 0, rowNum |-> 0, status |-> ""]

CacheKeys == {toLowerCase(c) : c \in Companies}

Init ==
  /\ now = 0
  /\ msgThread = <<>>
  /\ msgDate = <<>>
  /\ labels = [t \in Threads |-> {}]
  /\ rows = <<>>
  /\ pc = "idle"
  /\ applicationDataCache = [k \in CacheKeys |-> <<>>]
  /\ newMessagesList = <<>>
  /\ idx = 1
  /\ processedMessagesCountThisRun = 0
  /\ threadProcessingOutcomesMap = [t \in Threads |-> "none"]
  /\ lastStep = NoStep
  /\ reconciledEver = {}
  /\ writtenThisRun = {}
  /\ failedThisRun = {}
  /\ observedPeak = <<>>
  /\ triggers = <<>>
  /\ lastSetup = [fn |-> "none", handler |-> "", ok |-> TRUE]
  /\ gemini = [pc |-> "idle", msg |-> 0, attempt |-> 0, responses |-> <<>>,
               result |-> [company |-> MANUAL_REVIEW_NEEDED_TEXT,
                           title |-> MANUAL_REVIEW_NEEDED_TEXT,
                           status |-> MANUAL_REVIEW_NEEDED_TEXT]]
  /\ sweep = [pc |-> "idle", allSheetValues |-> <<>>, currentDate |-> 0]
  /\ leadThread = <<>>
  /\ leadLabels = [t \in {1, 2} |-> {}]
  /\ leadRows = {}
  /\ leadsRun = [pc |-> "idle", processedEmailIds |-> {}, threadsToProcess |-> <<>>,
                 t |-> 1, messagesInThread |-> <<>>, i |-> 1,
                 messagesProcessedThisRunCount |-> 0,
                 newMessagesFoundInThread |-> FALSE,
                 allMessagesInThreadProcessedSuccessfullyThisRun |-> TRUE]
  /\ leadHandled = <<>>

\* -------------------------------------------------- extraction (composer)
NULL == ""

\* What MJM_callGemini_forApplicationDetails hands back; called = FALSE when
\* the primary extractor is not used for the message (no key, empty body).
GeminiResults ==
  [called : {TRUE}, company : CompanyVals, title : TitleVals, status : Statuses]
  \cup {[called |-> FALSE, company |-> MANUAL_REVIEW_NEEDED_TEXT,
         title |-> MANUAL_REVIEW_NEEDED_TEXT, status |-> NULL]}

\* What MJM_extractCompanyAndTitle hands back.
RegexResults == [company : CompanyVals, title : TitleVals]

\* What MJM_parseBodyForStatus hands back.
RegexStatuses ==
  {NULL, MJM_APP_OFFER_STATUS, MJM_APP_INTERVIEW_STATUS, MJM_APP_ASSESSMENT_STATUS,
   MJM_APP_VIEWED_STATUS, MJM_APP_REJECTED_STATUS}

\* !extractedStatus || extractedStatus === MANUAL || extractedStatus === "Update/Other"
StatusUnresolved(s) ==
  s = NULL \/ s = MANUAL_REVIEW_NEEDED_TEXT \/ s = UPDATE_OTHER

\* Mutant of the composition: once the fallback runs, its company and title
\* are taken for both fields.
Compose_FallbackOverrides(g, rx, rs) ==
  LET c0 == IF g.called THEN g.company ELSE MANUAL_REVIEW_NEEDED_TEXT
      t0 == IF g.called THEN g.title ELSE MANUAL_REVIEW_NEEDED_TEXT
      sg == IF g.called THEN g.status ELSE NULL
      s0 == IF g.called /\ StatusUnresolved(sg) /\ rs # NULL THEN rs ELSE sg
      fallback == \/ c0 = MANUAL_REVIEW_NEEDED_TEXT
                  \/ t0 = MANUAL_REVIEW_NEEDED_TEXT
                  \/ StatusUnresolved(s0)
      c1 == IF fallback THEN rx.company ELSE c0
      t1 == IF fallback THEN rx.title ELSE t0
      s1 == IF fallback /\ StatusUnresolved(s0) /\ rs # NULL THEN rs ELSE s0
  IN [extractedCompany |-> c1,
      extractedTitle |-> t1,
      finalStatusToLog |-> IF s1 = NULL THEN MJM_APP_DEFAULT_STATUS ELSE s1,
      needsManualReviewFlag |->
        (c1 = MANUAL_REVIEW_NEEDED_TEXT \/ t1 = MANUAL_REVIEW_NEEDED_TEXT)]

\* The per-message composition of the two extractor tiers.
Compose(g, rx, rs) ==
  LET c0 == IF g.called THEN g.company ELSE MANUAL_REVIEW_NEEDED_TEXT
      t0 == IF g.called THEN g.title ELSE MANUAL_REVIEW_NEEDED_TEXT
      sg == IF g.called THEN g.status ELSE NULL
      s0 == IF g.called /\ StatusUnresolved(sg) /\ rs # NULL THEN rs ELSE sg
      fallback == \/ c0 = MANUAL_REVIEW_NEEDED_TEXT
                  \/ t0 = MANUAL_REVIEW_NEEDED_TEXT
                  \/ StatusUnresolved(s0)
      c1 == IF fallback /\ c0 = MANUAL_REVIEW_NEEDED_TEXT THEN rx.company ELSE c0
      t1 == IF fallback /\ t0 = MANUAL_REVIEW_NEEDED_TEXT THEN rx.title ELSE t0
      s1 == IF fallback /\ StatusUnresolved(s0) /\ rs # NULL THEN rs ELSE s0
  IN [extractedCompany |-> c1,
      extractedTitle |-> t1,
      finalStatusToLog |-> IF s1 = NULL THEN MJM_APP_DEFAULT_STATUS ELSE s1,
      needsManualReviewFlag |->
        (c1 = MANUAL_REVIEW_NEEDED_TEXT \/ t1 = MANUAL_REVIEW_NEEDED_TEXT)]

\* Every event the composer can produce for a message.
ComposedEvents ==
  {Compose(g, rx, rs) : g \in GeminiResults, rx \in RegexResults, rs \in RegexStatuses}

\* ------------------------------------------------------------ run start
SeqToSet(s) == {s[i] : i \in DOMAIN s}

\* The preload of applicationDataCache: the rows with a usable company,
\* grouped by lower-cased company in row order; row i is sheet row i + 1.
CacheEntry(rs, i) ==
  [rowNum |-> i + 1, emailId |-> rs[i].emailId, company |-> rs[i].company,
   title |-> rs[i].title, status |-> rs[i].status, peakStatus |-> rs[i].peakStatus]

PreloadCache(rs) ==
  LET all == [i \in 1..Len(rs) |-> CacheEntry(rs, i)]
  IN [k \in CacheKeys |->
        SelectSeq(all, LAMBDA e :
          /\ toLowerCase(e.company) = k
          /\ toLowerCase(e.company) # toLowerCase(MANUAL_REVIEW_NEEDED_TEXT)
          /\ toLowerCase(e.company) # "n/a")]

emailIdsAlreadyInSheet(cache) ==
  UNION {{e.emailId : e \in SeqToSet(cache[k])} : k \in DOMAIN cache}

\* toProcessLabel.getThreads(0, MAX_THREADS_TO_SCAN)
gmailThreadsToScan ==
  {t \in Threads : MJM_TRACKER_GMAIL_LABEL_TO_PROCESS \in labels[t]}

\* Mutant of the sort: the list stays in collection order (thread by thread).
RECURSIVE SortByDate_ThreadOrder(_)
SortByDate_ThreadOrder(S) ==
  IF S = {} THEN <<>>
  ELSE LET m == CHOOSE x \in S : \A y \in S :
                  \/ msgThread[x] < msgThread[y]
                  \/ (msgThread[x] = msgThread[y] /\ x <= y)
       IN <<m>> \o SortByDate_ThreadOrder(S \ {m})

\* newMessagesList.sort by date (messages of one week in arrival order).
RECURSIVE SortByDate(_)
SortByDate(S) ==
  IF S = {} THEN <<>>
  ELSE LET m == CHOOSE x \in S : \A y \in S :
                  \/ msgDate[x] < msgDate[y]
                  \/ (msgDate[x] = msgDate[y] /\ x <= y)
       IN <<m>> \o SortByDate(S \ {m})

NewMessages(cache) ==
  {m \in DOMAIN msgThread :
     /\ msgThread[m] \in gmailThreadsToScan
     /\ m \notin emailIdsAlreadyInSheet(cache)}

\* MJM_processJobApplicationEmails up to the loop: preload, pull the pending
\* threads, collect the unseen messages.  With none, the run ends here.
\* preloadOk = FALSE: reading the sheet for the preload throws; the catch
\* logs it and the run goes on with an empty cache.
StartRunWith(preloadOk) ==
  /\ pc = "idle"
  /\ Cardinality(gmailThreadsToScan) <= MAX_THREADS_TO_SCAN
  /\ LET cache == IF preloadOk THEN PreloadCache(rows) ELSE [k \in CacheKeys |-> <<>>]
         new == NewMessages(cache)
     IN /\ new # {}
        /\ applicationDataCache' = cache
        /\ newMessagesList' = SortByDate(new)
  /\ pc' = "loop"
  /\ idx' = 1
  /\ processedMessagesCountThisRun' = 0
  /\ threadProcessingOutcomesMap' = [t \in Threads |-> "none"]
  /\ lastStep' = NoStep
  /\ writtenThisRun' = {}
  /\ failedThisRun' = {}
  /\ UNCHANGED <<now, msgThread, msgDate, labels, rows, reconciledEver, observedPeak>>
  /\ UNCHANGED sideVars

\* The run start with a preload that succeeds.
StartRun == StartRunWith(TRUE)

\* A run whose preconditions fail: the spreadsheet or the "Applications"
\* sheet cannot be accessed, or one of the three labels is missing.  The
\* function logs and returns before the preload.
FatalPrecondition_DropsLabels ==
  /\ pc = "idle"
  /\ pc' = "aborted"
  /\ labels' = [t \in Threads |-> labels[t] \ {MJM_TRACKER_GMAIL_LABEL_TO_PROCESS}]
  /\ UNCHANGED <<now, msgThread, msgDate, rows, reconciledEver, observedPeak>>
  /\ UNCHANGED runVars
  /\ UNCHANGED sideVars

FatalPrecondition ==
  /\ pc = "idle"
  /\ pc' = "aborted"
  /\ UNCHANGED <<now, msgThread, msgDate, labels, rows, reconciledEver, observedPeak>>
  /\ UNCHANGED runVars
  /\ UNCHANGED sideVars

AbortReturn ==
  /\ pc = "aborted"
  /\ pc' = "idle"
  /\ UNCHANGED <<now, msgThread, msgDate, labels, rows, reconciledEver, observedPeak>>
  /\ UNCHANGED runVars
  /\ UNCHANGED sideVars

\* ------------------------------------------------------ record reconciler
\* Identity resolution: the entry of the event's company whose title matches,
\* else the entry with the largest row number (the array is sorted in place).
RECURSIVE SortByRowNumDesc(_)
SortByRowNumDesc(s) ==
  IF s = <<>> THEN <<>>
  ELSE LET i == CHOOSE j \in DOMAIN s : \A k \in DOMAIN s :
                  \/ s[j].rowNum > s[k].rowNum
                  \/ (s[j].rowNum = s[k].rowNum /\ j <= k)
       IN <<s[i]>> \o SortByRowNumDesc(SubSeq(s, 1, i - 1) \o SubSeq(s, i + 1, Len(s)))

TitleMatches(matches, title) ==
  {i \in DOMAIN matches : toLowerCase(matches[i].title) = toLowerCase(title)}

Min(S) == CHOOSE x \in S : \A y \in S : x <= y

\* [found, rowNum, peakStatus of the entry, matches as left in the cache]
ResolveIdentity(cache, ev) ==
  LET key == toLowerCase(ev.extractedCompany)
      usable == /\ ev.extractedCompany # MANUAL_REVIEW_NEEDED_TEXT
                /\ key \in DOMAIN cache
                /\ cache[key] # <<>>
      matches == IF usable THEN cache[key] ELSE <<>>
      byTitle == IF ev.extractedTitle # MANUAL_REVIEW_NEEDED_TEXT
                 THEN TitleMatches(matches, ev.extractedTitle) ELSE {}
      sorted == SortByRowNumDesc(matches)
  IN IF ~usable
     THEN [found |-> FALSE, rowNum |-> -1, peakStatus |-> "", matches |-> <<>>]
     ELSE IF byTitle # {}
     THEN [found |-> TRUE, rowNum |-> matches[Min(byTitle)].rowNum,
           peakStatus |-> matches[Min(byTitle)].peakStatus, matches |-> matches]
     ELSE [found |-> TRUE, rowNum |-> sorted[1].rowNum,
           peakStatus |-> sorted[1].peakStatus, matches |-> sorted]

\* Mutants of the status merge.
MergeStatus_NoRank(statusInSheet, finalStatusToLog) ==
  IF statusInSheet # MJM_APP_ACCEPTED_STATUS \/ finalStatusToLog = MJM_APP_ACCEPTED_STATUS
  THEN finalStatusToLog
  ELSE statusInSheet

MergeStatus_StrictRank(statusInSheet, finalStatusToLog) ==
  IF statusInSheet # MJM_APP_ACCEPTED_STATUS \/ finalStatusToLog = MJM_APP_ACCEPTED_STATUS
  THEN IF \/ RankOr(finalStatusToLog, 0) > RankOr(statusInSheet, 0)
          \/ finalStatusToLog = MJM_APP_REJECTED_STATUS
          \/ finalStatusToLog = MJM_APP_OFFER_STATUS
       THEN finalStatusToLog
       ELSE statusInSheet
  ELSE statusInSheet

MergeStatus_NoAcceptedGuard(statusInSheet, finalStatusToLog) ==
  IF \/ RankOr(finalStatusToLog, 0) >= RankOr(statusInSheet, 0)
     \/ finalStatusToLog = MJM_APP_REJECTED_STATUS
     \/ finalStatusToLog = MJM_APP_OFFER_STATUS
  THEN finalStatusToLog
  ELSE statusInSheet

\* Mutant of the status merge: a record at Rejected takes the status of any
\* later event (it is reopened).
MergeStatus_ReopensRejected(statusInSheet, finalStatusToLog) ==
  IF statusInSheet # MJM_APP_ACCEPTED_STATUS \/ finalStatusToLog = MJM_APP_ACCEPTED_STATUS
  THEN LET currentRank == RankOr(statusInSheet, 0)
           newRank == RankOr(finalStatusToLog, 0)
       IN IF \/ newRank >= currentRank
             \/ statusInSheet = MJM_APP_REJECTED_STATUS
             \/ finalStatusToLog = MJM_APP_REJECTED_STATUS
             \/ finalStatusToLog = MJM_APP_OFFER_STATUS
          THEN finalStatusToLog
          ELSE statusInSheet
  ELSE statusInSheet

\* The status merge on an existing row.
MergeStatus(statusInSheet, finalStatusToLog) ==
  IF statusInSheet # MJM_APP_ACCEPTED_STATUS \/ finalStatusToLog = MJM_APP_ACCEPTED_STATUS
  THEN LET currentRank == RankOr(statusInSheet, 0)
           newRank == RankOr(finalStatusToLog, 0)
       IN IF \/ newRank >= currentRank
             \/ finalStatusToLog = MJM_APP_REJECTED_STATUS
             \/ finalStatusToLog = MJM_APP_OFFER_STATUS
          THEN finalStatusToLog
          ELSE statusInSheet
  ELSE statusInSheet

\* Mutant of the peak update: the excluded set is not consulted.
MergePeak_NoExclusion(peakStatus, updatedStatusInSheet) ==
  IF RankOr(updatedStatusInSheet, -2) > RankOr(peakStatus, -2)
  THEN updatedStatusInSheet
  ELSE peakStatus

\* The peak update on an existing row.
MergePeak(peakStatus, updatedStatusInSheet) ==
  IF /\ RankOr(updatedStatusInSheet, -2) > RankOr(peakStatus, -2)
     /\ updatedStatusInSheet \notin excludedPeak
  THEN updatedStatusInSheet
  ELSE IF /\ peakStatus = MJM_APP_DEFAULT_STATUS
          /\ updatedStatusInSheet \notin excludedPeak
          /\ RankOr(updatedStatusInSheet, 0) > RankOr(MJM_APP_DEFAULT_STATUS, 0)
  THEN updatedStatusInSheet
  ELSE peakStatus

\* company / title of an existing row after an event.
MergeField(inSheet, extracted) ==
  IF /\ extracted # MANUAL_REVIEW_NEEDED_TEXT
     /\ (inSheet = MANUAL_REVIEW_NEEDED_TEXT \/ toLowerCase(inSheet) # toLowerCase(extracted))
  THEN extracted
  ELSE inSheet

\* The row written back for a matched event (message m, dated d).
UpdatedRow(row, cachedPeak, ev, m, d) ==
  LET st == MergeStatus(IF row.status = "" THEN MJM_APP_DEFAULT_STATUS ELSE row.status,
                        ev.finalStatusToLog)
      pk0 == IF cachedPeak # "" THEN cachedPeak
             ELSE IF row.peakStatus # "" THEN row.peakStatus
             ELSE MJM_APP_DEFAULT_STATUS
  IN [company |-> MergeField(row.company, ev.extractedCompany),
      title |-> MergeField(row.title, ev.extractedTitle),
      status |-> st,
      peakStatus |-> MergePeak(pk0, st),
      lastUpdate |-> IF row.lastUpdate = NoDate \/ d > row.lastUpdate
                     THEN d ELSE row.lastUpdate,
      emailId |-> m]

\* Mutant of the row creation: the peak is the event's status, whatever it is.
NewRow_PeakIsStatus(ev, m, d) ==
  [company |-> ev.extractedCompany,
   title |-> ev.extractedTitle,
   status |-> ev.finalStatusToLog,
   peakStatus |-> ev.finalStatusToLog,
   lastUpdate |-> d,
   emailId |-> m]

\* The row appended for an unmatched event.
NewRow(ev, m, d) ==
  [company |-> ev.extractedCompany,
   title |-> ev.extractedTitle,
   status |-> ev.finalStatusToLog,
   peakStatus |-> IF ev.finalStatusToLog \notin excludedPeak
                  THEN ev.finalStatusToLog ELSE MJM_APP_DEFAULT_STATUS,
   lastUpdate |-> d,
   emailId |-> m]

\* Mutant of the outcome bookkeeping: the last message's outcome wins.
OutcomeAfterWrite_LastWins(cur, needsManualReviewFlag) ==
  IF needsManualReviewFlag THEN "manual" ELSE "done"

\* Mutant of the outcome bookkeeping: a successful write counts as done,
\* whether or not company and title were resolved.
OutcomeAfterWrite_IgnoresFlag(cur, needsManualReviewFlag) ==
  IF cur # "manual" THEN "done" ELSE cur

\* threadProcessingOutcomesMap[thread] after a successful sheet write.
OutcomeAfterWrite(cur, needsManualReviewFlag) ==
  IF needsManualReviewFlag THEN "manual"
  ELSE IF cur # "manual" THEN "done" ELSE cur

\* History: the highest-ranked status outside excludedPeak seen for a row.
Observe(old, s) ==
  IF s \in excludedPeak THEN old
  ELSE IF old = "none" \/ RankOr(s, -2) > RankOr(old, -2) THEN s
  ELSE old

\* Mutant of the budget check: the message count may exceed the maximum by
\* one.
BudgetBreached_OffByOne(elapsedOver) ==
  processedMessagesCountThisRun > MAX_MESSAGES_TO_PROCESS_THIS_RUN \/ elapsedOver

\* The loop's budget check at the top of an iteration.
BudgetBreached(elapsedOver) ==
  processedMessagesCountThisRun >= MAX_MESSAGES_TO_PROCESS_THIS_RUN \/ elapsedOver

InLoop == pc = "loop" /\ idx <= Len(newMessagesList)

\* One loop iteration whose event matches an existing row: read the row,
\* merge, write it back, refresh the cache entry.
ReconcileUpdate(ev) ==
  /\ InLoop
  /\ ~BudgetBreached(FALSE)
  /\ LET m == newMessagesList[idx]
         t == msgThread[m]
         res == ResolveIdentity(applicationDataCache, ev)
         key == toLowerCase(ev.extractedCompany)
         i == res.rowNum - 1
     IN /\ res.found
        /\ LET row == UpdatedRow(rows[i], res.peakStatus, ev, m, msgDate[m])
           IN /\ rows' = [rows EXCEPT ![i] = row]
              /\ applicationDataCache' =
                   [applicationDataCache EXCEPT ![key] =
                      [j \in DOMAIN res.matches |->
                         IF res.matches[j].rowNum = res.rowNum
                         THEN [rowNum |-> res.rowNum, emailId |-> m,
                               company |-> row.company, title |-> row.title,
                               status |-> row.status, peakStatus |-> row.peakStatus]
                         ELSE res.matches[j]]]
        /\ observedPeak' = [observedPeak EXCEPT ![i] = Observe(@, ev.finalStatusToLog)]
        /\ threadProcessingOutcomesMap' =
             [threadProcessingOutcomesMap EXCEPT ![t] =
                OutcomeAfterWrite(@, ev.needsManualReviewFlag)]
        /\ lastStep' = [kind |-> "update", msg |-> m, rowNum |-> res.rowNum,
                        status |-> ev.finalStatusToLog]
        /\ reconciledEver' = reconciledEver \cup {m}
        /\ writtenThisRun' = writtenThisRun \cup {m}
  /\ idx' = idx + 1
  /\ processedMessagesCountThisRun' = processedMessagesCountThisRun + 1
  /\ UNCHANGED <<now, msgThread, msgDate, labels, pc, newMessagesList, failedThisRun>>
  /\ UNCHANGED sideVars

\* One loop iteration whose event matches no row: append a row, add it to
\* the cache under its company key.
ReconcileAppend(ev) ==
  /\ InLoop
  /\ ~BudgetBreached(FALSE)
  /\ Len(rows) < MaxRows
  /\ LET m == newMessagesList[idx]
         t == msgThread[m]
         res == ResolveIdentity(applicationDataCache, ev)
         key == toLowerCase(ev.extractedCompany)
         row == NewRow(ev, m, msgDate[m])
         newRowNum == Len(rows) + 2
     IN /\ ~res.found
        /\ rows' = Append(rows, row)
        /\ applicationDataCache' =
             IF ev.extractedCompany # MANUAL_REVIEW_NEEDED_TEXT
             THEN [applicationDataCache EXCEPT ![key] =
                     Append(@, [rowNum |-> newRowNum, emailId |-> m,
                                company |-> row.company, title |-> row.title,
                                status |-> row.status, peakStatus |-> row.peakStatus])]
             ELSE applicationDataCache  \* key _mrev_entry_key_<id>: never looked up
        /\ observedPeak' = Append(observedPeak, Observe("none", ev.finalStatusToLog))
        /\ threadProcessingOutcomesMap' =
             [threadProcessingOutcomesMap EXCEPT ![t] =
                OutcomeAfterWrite(@, ev.needsManualReviewFlag)]
        /\ lastStep' = [kind |-> "append", msg |-> m, rowNum |-> newRowNum,
                        status |-> ev.finalStatusToLog]
        /\ reconciledEver' = reconciledEver \cup {m}
        /\ writtenThisRun' = writtenThisRun \cup {m}
  /\ idx' = idx + 1
  /\ processedMessagesCountThisRun' = processedMessagesCountThisRun + 1
  /\ UNCHANGED <<now, msgThread, msgDate, labels, pc, newMessagesList, failedThisRun>>
  /\ UNCHANGED sideVars

\* One loop iteration that throws before its sheet write completes (the
\* extractor, the row read, setValues or appendRow fails): caught by the
\* inner catch, which sets the thread's outcome to 'manual'.
ReconcileThrow ==
  /\ InLoop
  /\ ~BudgetBreached(FALSE)
  /\ LET m == newMessagesList[idx]
         t == msgThread[m]
     IN /\ threadProcessingOutcomesMap' =
             [threadProcessingOutcomesMap EXCEPT ![t] = "manual"]
        /\ lastStep' = [kind |-> "throw", msg |-> m, rowNum |-> 0, status |-> ""]
        /\ failedThisRun' = failedThisRun \cup {m}
  /\ idx' = idx + 1
  /\ processedMessagesCountThisRun' = processedMessagesCountThisRun + 1
  /\ UNCHANGED <<now, msgThread, msgDate, labels, rows, pc, applicationDataCache,
                 newMessagesList, reconciledEver, writtenThisRun, observedPeak>>
  /\ UNCHANGED sideVars

\* The loop ends: the list is exhausted.
LoopEnd ==
  /\ pc = "loop"
  /\ idx > Len(newMessagesList)
  /\ pc' = "labels"
  /\ UNCHANGED <<now, msgThread, msgDate, labels, rows, reconciledEver, observedPeak>>
  /\ UNCHANGED runVars
  /\ UNCHANGED sideVars

\* The loop ends early: message budget used up or 330 s elapsed.
BudgetStop ==
  /\ InLoop
  /\ \E elapsedOver \in BOOLEAN : BudgetBreached(elapsedOver)
  /\ pc' = "labels"
  /\ UNCHANGED <<now, msgThread, msgDate, labels, rows, reconciledEver, observedPeak>>
  /\ UNCHANGED runVars
  /\ UNCHANGED sideVars

\* ------------------------------------------------------- label workflow
\* MJM_applyFinalLabelsToThreads for one thread of the outcomes map: remove
\* "To Process" when present, add the target label when absent.  Either
\* Gmail call may throw (removeOk / addOk FALSE); no other label is removed.
LabelsAfter(cur, outcome, removeOk, addOk) ==
  LET labelToAdd == IF outcome = "manual"
                    THEN MJM_TRACKER_GMAIL_LABEL_MANUAL_REVIEW
                    ELSE MJM_TRACKER_GMAIL_LABEL_PROCESSED
      afterRemove == IF MJM_TRACKER_GMAIL_LABEL_TO_PROCESS \in cur /\ removeOk
                     THEN cur \ {MJM_TRACKER_GMAIL_LABEL_TO_PROCESS}
                     ELSE cur
  IN IF labelToAdd \notin cur /\ addOk
     THEN afterRemove \cup {labelToAdd}
     ELSE afterRemove

ApplyLabels(removeFails, addFails) ==
  /\ pc = "labels"
  /\ labels' = [t \in Threads |->
         IF threadProcessingOutcomesMap[t] = "none" THEN labels[t]
         ELSE LabelsAfter(labels[t], threadProcessingOutcomesMap[t],
                          t \notin removeFails, t \notin addFails)]
  /\ pc' = "idle"
  \* the run returns: its locals are gone
  /\ applicationDataCache' = [k \in CacheKeys |-> <<>>]
  /\ newMessagesList' = <<>>
  /\ idx' = 1
  /\ processedMessagesCountThisRun' = 0
  /\ threadProcessingOutcomesMap' = [t \in Threads |-> "none"]
  /\ lastStep' = NoStep
  /\ writtenThisRun' = {}
  /\ failedThisRun' = {}
  /\ UNCHANGED <<now, msgThread, msgDate, rows, reconciledEver, observedPeak>>
  /\ UNCHANGED sideVars

\* ------------------------------------------------------- staleness sweep
\* Mutant of the staleness test: a record dated exactly at the threshold is
\* stale as well.
IsStale_AtThreshold(row, currentDate) ==
  LET staleDateThreshold == currentDate - MJM_STALE_WEEKS_THRESHOLD
  IN /\ row.lastUpdate # NoDate
     /\ ~(\/ row.status \in MJM_STALE_FINAL_STATUSES_FOR_CHECK
          \/ row.status = ""
          \/ row.status = MANUAL_REVIEW_NEEDED_TEXT)
     /\ ~(row.lastUpdate > staleDateThreshold)

IsStale(row, currentDate) ==
  LET staleDateThreshold == currentDate - MJM_STALE_WEEKS_THRESHOLD
  IN /\ row.lastUpdate # NoDate
     /\ ~(\/ row.status \in MJM_STALE_FINAL_STATUSES_FOR_CHECK
          \/ row.status = ""
          \/ row.status = MANUAL_REVIEW_NEEDED_TEXT)
     /\ ~(row.lastUpdate >= staleDateThreshold)

\* Mutant of the row update: the peak status is closed along with the status.
SweptRow_ClosesPeak(row, currentDate) ==
  IF IsStale(row, currentDate)
  THEN [row EXCEPT !.status = MJM_APP_REJECTED_STATUS, !.lastUpdate = currentDate,
                   !.peakStatus = MJM_APP_REJECTED_STATUS]
  ELSE row

SweptRow(row, currentDate) ==
  IF IsStale(row, currentDate)
  THEN [row EXCEPT !.status = MJM_APP_REJECTED_STATUS, !.lastUpdate = currentDate]
  ELSE row

\* Mutant of the write condition: the sheet is written back on every pass.
SweepWrites_Always(rs, currentDate) == TRUE

\* updatedStaleApplicationsCount > 0: the pass writes the sheet back.
SweepWrites(rs, currentDate) ==
  \E i \in DOMAIN rs : IsStale(rs[i], currentDate)

\* One pass over all rows, written back in one setValues call when a row
\* was marked; the call may fail and leave the sheet as it was.
MarkStaleWith(writeOk) ==
  /\ pc = "idle"
  /\ rows' = IF SweepWrites(rows, now) /\ writeOk
            THEN [i \in DOMAIN rows |-> SweptRow(rows[i], now)]
            ELSE rows
  /\ UNCHANGED <<now, msgThread, msgDate, labels, pc, reconciledEver, observedPeak>>
  /\ UNCHANGED runVars
  /\ UNCHANGED sideVars

MJM_markStaleApplicationsAsRejected == \E writeOk \in BOOLEAN : MarkStaleWith(writeOk)

\* Between runs the user empties the "Last Update Date" cell of row i.
UserClearsDate(i) ==
  /\ pc = "idle"
  /\ i \in DOMAIN rows
  /\ rows[i].lastUpdate # NoDate
  /\ rows' = [rows EXCEPT ![i].lastUpdate = NoDate]
  /\ UNCHANGED <<now, msgThread, msgDate, labels, pc, reconciledEver, observedPeak>>
  /\ UNCHANGED runVars
  /\ UNCHANGED sideVars

\* Between runs the user empties the "Status" cell of row i.
UserClearsStatus(i) ==
  /\ pc = "idle"
  /\ i \in DOMAIN rows
  /\ rows[i].status # ""
  /\ rows' = [rows EXCEPT ![i].status = ""]
  /\ UNCHANGED <<now, msgThread, msgDate, labels, pc, reconciledEver, observedPeak>>
  /\ UNCHANGED runVars
  /\ UNCHANGED sideVars

\* A message matching the tracker's Gmail filter arrives in thread t: the
\* filter puts the "To Process" label on it.
ArriveWithin(t, n) ==
  /\ pc = "idle"
  /\ Len(msgThread) < n
  /\ msgThread' = Append(msgThread, t)
  /\ msgDate' = Append(msgDate, now)
  /\ labels' = [labels EXCEPT ![t] = @ \cup {MJM_TRACKER_GMAIL_LABEL_TO_PROCESS}]
  /\ UNCHANGED <<now, rows, pc, reconciledEver, observedPeak>>
  /\ UNCHANGED runVars
  /\ UNCHANGED sideVars

Arrive(t) == ArriveWithin(t, NumMsgs)

\* Time passes between runs.
Tick(d) ==
  /\ pc = "idle"
  /\ now + d <= MaxNow
  /\ now' = now + d
  /\ UNCHANGED <<msgThread, msgDate, labels, rows, pc, reconciledEver, observedPeak>>
  /\ UNCHANGED runVars
  /\ UNCHANGED sideVars

\* The steps of one e-mail run, for events drawn from Evs and Gmail label
\* calls failing on the thread sets Fails.
RunStep(Evs, Fails) ==
  \/ StartRun
  \/ \E ev \in Evs : ReconcileUpdate(ev)
  \/ \E ev \in Evs : ReconcileAppend(ev)
  \/ ReconcileThrow
  \/ LoopEnd
  \/ BudgetStop
  \/ \E removeFails \in Fails, addFails \in Fails : ApplyLabels(removeFails, addFails)

\* The label workflow: arrivals in every thread, label calls that may fail,
\* events of one status (the workflow does not read the status), no time
\* passing.
FlowStatuses == {MJM_APP_DEFAULT_STATUS}
FlowEvents == {ev \in ComposedEvents : ev.finalStatusToLog \in FlowStatuses}
Next ==
  \/ \E t \in Threads : Arrive(t)
  \/ RunStep(FlowEvents, SUBSET Threads)
Spec == Init /\ [][Next]_vars

\* The record reconciler and the sweep: events of every status for one
\* application (company and title resolved), one thread, label calls that
\* succeed, and time passing between runs.
StatusEvents ==
  {ev \in ComposedEvents : ~ev.needsManualReviewFlag}
NextStatus ==
  \/ Arrive(1)
  \/ Tick(MJM_STALE_WEEKS_THRESHOLD + 1)
  \/ RunStep(StatusEvents, {{}})
  \/ MJM_markStaleApplicationsAsRejected
SpecStatus == Init /\ [][NextStatus]_vars

\* Identity resolution: events of one status for the applications of one
\* company under two spellings and two titles, one thread, a preload that
\* may fail, a "To Process" removal that may fail, time passing between
\* runs, and runs that stop on a failed precondition.
IdCompanies == {"Acme", "ACME"}
IdTitles == {"Engineer", "Analyst"}
IdentityEvents ==
  {Compose([called |-> TRUE, company |-> c, title |-> t, status |-> MJM_APP_DEFAULT_STATUS],
           [company |-> MANUAL_REVIEW_NEEDED_TEXT, title |-> MANUAL_REVIEW_NEEDED_TEXT],
           NULL) :
     c \in IdCompanies \cup {MANUAL_REVIEW_NEEDED_TEXT},
     t \in IdTitles \cup {MANUAL_REVIEW_NEEDED_TEXT}}
NextIdentity ==
  \/ Arrive(1)
  \/ Tick(MJM_STALE_WEEKS_THRESHOLD + 1)
  \/ \E preloadOk \in BOOLEAN : StartRunWith(preloadOk)
  \/ \E ev \in IdentityEvents : ReconcileUpdate(ev)
  \/ \E ev \in IdentityEvents : ReconcileAppend(ev)
  \/ ReconcileThrow
  \/ LoopEnd
  \/ BudgetStop
  \/ \E removeFails \in {{}, {1}} : ApplyLabels(removeFails, {})
  \/ FatalPrecondition
  \/ AbortReturn
SpecIdentity == Init /\ [][NextIdentity]_vars

\* The staleness sweep: two applications with statuses the sweep closes and
\* statuses it skips, one thread, seven or eight weeks passing between runs
\* (so that a record stands exactly at the threshold or beyond it), and a
\* user who empties date and status cells.
MaxSweepMsgs == 2
SweepStatuses ==
  {MJM_APP_DEFAULT_STATUS, MJM_APP_INTERVIEW_STATUS, MJM_APP_ACCEPTED_STATUS,
   WITHDRAWN, MANUAL_REVIEW_NEEDED_TEXT}
SweepEvents ==
  {Compose([called |-> TRUE, company |-> c, title |-> "Engineer", status |-> st],
           [company |-> MANUAL_REVIEW_NEEDED_TEXT, title |-> MANUAL_REVIEW_NEEDED_TEXT],
           NULL) :
     c \in {"Acme", "Initech"}, st \in SweepStatuses}
NextSweep ==
  \/ (Len(msgThread) < MaxSweepMsgs /\ Arrive(1))
  \/ Tick(MJM_STALE_WEEKS_THRESHOLD)
  \/ Tick(MJM_STALE_WEEKS_THRESHOLD + 1)
  \/ StartRun
  \/ \E ev \in SweepEvents : ReconcileUpdate(ev)
  \/ \E ev \in SweepEvents : ReconcileAppend(ev)
  \/ LoopEnd
  \/ ApplyLabels({}, {})
  \/ MJM_markStaleApplicationsAsRejected
  \/ \E i \in 1..MaxRows : UserClearsDate(i)
  \/ \E i \in 1..MaxRows : UserClearsStatus(i)
SpecSweep == Init /\ [][NextSweep]_vars

\* The per-run budgets: one thread that receives more messages than a run
\* may process, all of one application, Gmail label calls that succeed, and
\* a wall-clock deadline that may pass before any iteration.
MaxBudgetMsgs == 21
BudgetEvents ==
  {Compose([called |-> TRUE, company |-> "Acme", title |-> "Engineer",
            status |-> MJM_APP_DEFAULT_STATUS],
           [company |-> MANUAL_REVIEW_NEEDED_TEXT, title |-> MANUAL_REVIEW_NEEDED_TEXT],
           NULL)}
NextBudget ==
  \/ ArriveWithin(1, MaxBudgetMsgs)
  \/ StartRun
  \/ \E ev \in BudgetEvents : ReconcileUpdate(ev)
  \/ \E ev \in BudgetEvents : ReconcileAppend(ev)
  \/ LoopEnd
  \/ BudgetStop
  \/ ApplyLabels({}, {})
SpecBudget == Init /\ [][NextBudget]_vars

\* The order of reconciliation: two threads receiving messages of one
\* application at different times, runs that may stop on the budget, and
\* sweeps in between.
OrderTick == 4
OrderEvents == BudgetEvents
NextOrder ==
  \/ \E t \in Threads : Arrive(t)
  \/ Tick(OrderTick)
  \/ StartRun
  \/ \E ev \in OrderEvents : ReconcileUpdate(ev)
  \/ \E ev \in OrderEvents : ReconcileAppend(ev)
  \/ LoopEnd
  \/ BudgetStop
  \/ ApplyLabels({}, {})
  \/ MJM_markStaleApplicationsAsRejected
SpecOrder == Init /\ [][NextOrder]_vars

\* ------------------------------------------------------ trigger management
\* The handler functions that get a time-driven trigger.
Handlers ==
  {"MJM_processJobApplicationEmails", "MJM_markStaleApplicationsAsRejected",
   "MJM_processJobLeads"}

MaxTriggers == 4

\* seq without the elements at the indices in S.
Without(seq, S) ==
  LET F[i \in 0..Len(seq)] ==
        IF i = 0 THEN <<>>
        ELSE IF i \in S THEN F[i - 1] ELSE Append(F[i - 1], seq[i])
  IN F[Len(seq)]

\* The indices of the clock triggers of a handler.
ClockTriggersOf(ts, h) ==
  {i \in DOMAIN ts : ts[i].handler = h /\ ts[i].source = "CLOCK"}

\* Mutant of the hourly setup: a trigger is created without looking for an
\* existing one.
HourlyTriggersAfter_NoLookup(ts, h) ==
  Append(ts, [handler |-> h, source |-> "CLOCK", every |-> "hours"])

\* The triggers after an hourly setup that did not throw.
HourlyTriggersAfter(ts, h) ==
  IF ClockTriggersOf(ts, h) # {}
  THEN ts
  ELSE Append(ts, [handler |-> h, source |-> "CLOCK", every |-> "hours"])

\* MJM_createHourlyTrigger: throws = TRUE when getProjectTriggers or create
\* throws (caught, logged, FALSE returned, nothing created).
MJM_createHourlyTrigger(h, throws) ==
  /\ Len(triggers) < MaxTriggers
  /\ triggers' = IF throws THEN triggers ELSE HourlyTriggersAfter(triggers, h)
  /\ lastSetup' = [fn |-> "hourly", handler |-> h, ok |-> ~throws]
  /\ UNCHANGED <<coreVars, gemini, sweep, leadsVars>>

\* MJM_createDailyAtHourTrigger: every clock trigger of the handler is
\* deleted, then one daily trigger is created.  deleted < matching: the
\* call of deleteTrigger after `deleted` deletions throws; created = FALSE
\* with everything deleted: create throws.
MJM_createDailyAtHourTrigger(h, deleted, created) ==
  LET matching == ClockTriggersOf(triggers, h)
      gone == {i \in matching : Cardinality({j \in matching : j <= i}) <= deleted}
      rest == Without(triggers, gone)
  IN /\ Len(triggers) < MaxTriggers
     /\ deleted <= Cardinality(matching)
     /\ created => deleted = Cardinality(matching)
     /\ triggers' = IF created
                    THEN Append(rest, [handler |-> h, source |-> "CLOCK", every |-> "days"])
                    ELSE rest
     /\ lastSetup' = [fn |-> "daily", handler |-> h, ok |-> created]
     /\ UNCHANGED <<coreVars, gemini, sweep, leadsVars>>

\* MJM_deleteAllTriggersForFunction: every trigger of the handler, of any
\* source, is deleted; a throwing deleteTrigger stops the loop.
MJM_deleteAllTriggersForFunction(h, deleted) ==
  LET matching == {i \in DOMAIN triggers : triggers[i].handler = h}
      gone == {i \in matching : Cardinality({j \in matching : j <= i}) <= deleted}
  IN /\ matching # {}
     /\ deleted <= Cardinality(matching)
     /\ triggers' = Without(triggers, gone)
     /\ lastSetup' = [fn |-> "deleteAll", handler |-> h,
                      ok |-> deleted = Cardinality(matching)]
     /\ UNCHANGED <<coreVars, gemini, sweep, leadsVars>>

\* The user installs a spreadsheet-open trigger for a handler in the script
\* editor (not a clock trigger).
UserInstallsOpenTrigger(h) ==
  /\ Len(triggers) < MaxTriggers - 1
  /\ \A i \in DOMAIN triggers :
       ~(triggers[i].handler = h /\ triggers[i].source = "SPREADSHEETS")
  /\ triggers' = Append(triggers, [handler |-> h, source |-> "SPREADSHEETS",
                                   every |-> "open"])
  /\ UNCHANGED <<lastSetup, coreVars, gemini, sweep, leadsVars>>

NextTriggers ==
  \/ \E h \in Handlers, throws \in BOOLEAN : MJM_createHourlyTrigger(h, throws)
  \/ \E h \in Handlers, deleted \in 0..MaxTriggers, created \in BOOLEAN :
       MJM_createDailyAtHourTrigger(h, deleted, created)
  \/ \E h \in Handlers, deleted \in 0..MaxTriggers :
       MJM_deleteAllTriggersForFunction(h, deleted)
  \/ \E h \in Handlers : UserInstallsOpenTrigger(h)
SpecTriggers == Init /\ [][NextTriggers]_vars

\* The extractor tiers: the inputs of the composition are drawn per message
\* and kept in lastStep until the iteration's sheet write.  The primary
\* extractor and the fallback name the company and the title differently,
\* so that the origin of a composed field can be told.
MaxComposeMsgs == 2
ComposeStatuses ==
  {MJM_APP_DEFAULT_STATUS, MJM_APP_INTERVIEW_STATUS, MANUAL_REVIEW_NEEDED_TEXT,
   UPDATE_OTHER}
ComposeRegexStatuses == {NULL, MJM_APP_REJECTED_STATUS}
ComposeGemini ==
  [called : {TRUE}, company : {"Acme", MANUAL_REVIEW_NEEDED_TEXT},
   title : {"Engineer", MANUAL_REVIEW_NEEDED_TEXT}, status : ComposeStatuses]
  \cup {[called |-> FALSE, company |-> MANUAL_REVIEW_NEEDED_TEXT,
         title |-> MANUAL_REVIEW_NEEDED_TEXT, status |-> NULL]}
ComposeRegex ==
  [company : {"ACME", MANUAL_REVIEW_NEEDED_TEXT},
   title : {"Analyst", MANUAL_REVIEW_NEEDED_TEXT}]

\* The first half of a loop iteration: the message's fields are extracted
\* and composed (no sheet or label is touched).
ComposeCore(g, rx, rs) ==
  /\ InLoop
  /\ ~BudgetBreached(FALSE)
  /\ lastStep.kind # "compose"
  /\ lastStep' = [kind |-> "compose", msg |-> newMessagesList[idx], rowNum |-> 0,
                  status |-> Compose(g, rx, rs).finalStatusToLog,
                  g |-> g, rx |-> rx, rs |-> rs, ev |-> Compose(g, rx, rs)]
  /\ UNCHANGED <<now, msgThread, msgDate, labels, rows, pc, applicationDataCache,
                 newMessagesList, idx, processedMessagesCountThisRun,
                 threadProcessingOutcomesMap, reconciledEver, writtenThisRun,
                 failedThisRun, observedPeak>>

ComposeStep(g, rx, rs) ==
  /\ ComposeCore(g, rx, rs)
  /\ UNCHANGED sideVars

\* The second half: the composed event is reconciled into the sheet.
ReconcileComposed ==
  /\ lastStep.kind = "compose"
  /\ ReconcileUpdate(lastStep.ev) \/ ReconcileAppend(lastStep.ev)

NextCompose ==
  \/ Len(msgThread) < MaxComposeMsgs /\ Arrive(1)
  \/ StartRun
  \/ \E g \in ComposeGemini, rx \in ComposeRegex, rs \in ComposeRegexStatuses :
       ComposeStep(g, rx, rs)
  \/ ReconcileComposed
  \/ lastStep.kind = "compose" /\ ReconcileThrow
  \/ LoopEnd
  \/ lastStep.kind # "compose" /\ BudgetStop
  \/ ApplyLabels({}, {})
SpecCompose == Init /\ [][NextCompose]_vars

\* ------------------------------------------ the primary extractor's call
\* MJM_callGemini_forApplicationDetails: the request loop for one message.
maxAttempts == 2
MaxGeminiMsgs == 1

NoData == [company_name |-> NULL, job_title |-> NULL, status |-> NULL]

\* What one UrlFetchApp.fetch can bring.  rc = 0: fetch itself throws.
\* body: "fields" (the text parses and has the three keys, possibly empty),
\* "missingFields", "badText" (the text is not JSON), "noCandidates",
\* "blocked" (promptFeedback.blockReason), "notJson" (the response body
\* itself is not JSON), "error" (any body of a non-200 response).
GeminiResponses ==
  {[rc |-> 200, body |-> "fields", data |-> d] :
     d \in [company_name : {"Acme", NULL}, job_title : {"Engineer", NULL},
            status : {MJM_APP_INTERVIEW_STATUS, NULL}]}
  \cup {[rc |-> 200, body |-> b, data |-> NoData] :
          b \in {"missingFields", "badText", "noCandidates", "blocked", "notJson"}}
  \cup {[rc |-> c, body |-> "error", data |-> NoData] : c \in {429, 404, 500}}
  \cup {[rc |-> 0, body |-> "fetchThrows", data |-> NoData]}

\* let result = {company: MANUAL, title: MANUAL, status: MANUAL}
DefaultResult ==
  [company |-> MANUAL_REVIEW_NEEDED_TEXT, title |-> MANUAL_REVIEW_NEEDED_TEXT,
   status |-> MANUAL_REVIEW_NEEDED_TEXT]

\* x || MANUAL_REVIEW_NEEDED_TEXT
OrManual(x) == IF x = NULL THEN MANUAL_REVIEW_NEEDED_TEXT ELSE x

\* An exception reaches the catch of the request loop: fetch threw, or
\* JSON.parse(responseBody) threw on a 200 response.
AttemptThrows(r) == r.rc = 0 \/ (r.rc = 200 /\ r.body = "notJson")

\* The loop makes another request after this response (`continue`).
AttemptContinues(r, attempt) ==
  \/ AttemptThrows(r) /\ attempt < maxAttempts
  \/ ~AttemptThrows(r) /\ r.rc = 429 /\ attempt < maxAttempts

\* The result in hand after the response.
AttemptResult(r, result) ==
  IF r.rc = 200 /\ r.body = "fields"
  THEN [company |-> OrManual(r.data.company_name),
        title |-> OrManual(r.data.job_title),
        status |-> OrManual(r.data.status)]
  ELSE IF r.rc = 200 /\ r.body = "blocked"
  THEN [result EXCEPT !.status = "Blocked: SAFETY"]
  ELSE result

\* The call is entered for the message of the current loop iteration.
GeminiCall ==
  /\ InLoop
  /\ ~BudgetBreached(FALSE)
  /\ lastStep.kind # "compose"
  /\ gemini.pc = "idle"
  /\ gemini' = [pc |-> "calling", msg |-> newMessagesList[idx], attempt |-> 0,
                responses |-> <<>>, result |-> DefaultResult]
  /\ UNCHANGED <<coreVars, triggerVars, sweep, leadsVars>>

\* One pass of while (attempt < maxAttempts): attempt++, fetch, then either
\* `continue` or a return.
GeminiAttempt(r) ==
  /\ gemini.pc = "calling"
  /\ gemini.attempt < maxAttempts
  /\ LET attempt == gemini.attempt + 1
     IN gemini' = [gemini EXCEPT
                     !.attempt = attempt,
                     !.responses = Append(@, r),
                     !.result = AttemptResult(r, @),
                     !.pc = IF AttemptContinues(r, attempt)
                            THEN "calling" ELSE "returned"]
  /\ UNCHANGED <<coreVars, triggerVars, sweep, leadsVars>>

\* The caller composes the returned result with the fallback tiers.
ComposeFromGemini(rx, rs) ==
  /\ gemini.pc = "returned"
  /\ gemini.msg = newMessagesList[idx]
  /\ ComposeCore([called |-> TRUE, company |-> gemini.result.company,
                  title |-> gemini.result.title, status |-> gemini.result.status],
                 rx, rs)
  /\ gemini' = [gemini EXCEPT !.pc = "idle"]
  /\ UNCHANGED <<triggerVars, sweep, leadsVars>>

NextGemini ==
  \/ Len(msgThread) < MaxGeminiMsgs /\ Arrive(1)
  \/ StartRun
  \/ GeminiCall
  \/ \E r \in GeminiResponses : GeminiAttempt(r)
  \/ \E rx \in ComposeRegex, rs \in ComposeRegexStatuses : ComposeFromGemini(rx, rs)
  \/ ReconcileComposed
  \/ LoopEnd
  \/ ApplyLabels({}, {})
SpecGemini == Init /\ [][NextGemini]_vars

\* ------------------------------- the sweep and the e-mail run, overlapping
\* The two handlers run from separate clock triggers and take no lock, so
\* an execution of one can start while the other is under way.  The sweep
\* is then two steps: getDataRange().getValues(), and later setValues on the
\* same range with the values it read.
MaxRaceMsgs == 2
RaceTick == 8

\* const allSheetValues = allDataRange.getValues(); const currentDate = new Date()
SweepRead ==
  /\ sweep.pc = "idle"
  /\ sweep' = [pc |-> "read", allSheetValues |-> rows, currentDate |-> now]
  /\ UNCHANGED <<coreVars, triggerVars, gemini, leadsVars>>

\* The rows are marked in allSheetValues and, when one was marked, the
\* range that was read is written back; rows appended since lie below it.
SweepWriteBack(writeOk) ==
  /\ sweep.pc = "read"
  /\ LET vals == sweep.allSheetValues
         swept == [i \in DOMAIN vals |-> SweptRow(vals[i], sweep.currentDate)]
     IN rows' = IF SweepWrites(vals, sweep.currentDate) /\ writeOk
                THEN [i \in DOMAIN rows |->
                        IF i \in DOMAIN swept THEN swept[i] ELSE rows[i]]
                ELSE rows
  /\ sweep' = [pc |-> "idle", allSheetValues |-> <<>>, currentDate |-> 0]
  /\ UNCHANGED <<now, msgThread, msgDate, labels, pc, reconciledEver, observedPeak>>
  /\ UNCHANGED runVars
  /\ UNCHANGED <<triggerVars, gemini, leadsVars>>

RaceEvents ==
  {Compose([called |-> TRUE, company |-> "Acme", title |-> "Engineer", status |-> st],
           [company |-> MANUAL_REVIEW_NEEDED_TEXT, title |-> MANUAL_REVIEW_NEEDED_TEXT],
           NULL) :
     st \in {MJM_APP_DEFAULT_STATUS, MJM_APP_ACCEPTED_STATUS}}
NextRace ==
  \/ (Len(msgThread) < MaxRaceMsgs /\ Arrive(1))
  \/ Tick(RaceTick)
  \/ StartRun
  \/ \E ev \in RaceEvents : ReconcileUpdate(ev)
  \/ \E ev \in RaceEvents : ReconcileAppend(ev)
  \/ LoopEnd
  \/ ApplyLabels({}, {})
  \/ SweepRead
  \/ \E writeOk \in BOOLEAN : SweepWriteBack(writeOk)
SpecRace == Init /\ [][NextRace]_vars

\* ------------------------------------------------- the job-leads processor
\* MJM_processJobLeads: threads labelled NeedsProcess are read, each new
\* message is sent to the extractor, and the thread is relabelled.
LEADS_THREAD_LIMIT_PER_RUN == 10
LEADS_MESSAGES_TO_PROCESS_PER_RUN == 15
MaxLeadMsgs == 16
MaxSecondThread == 1
MaxLeadFail == 1

LeadThreads == {1, 2}
MJM_LEADS_GMAIL_LABEL_NEEDS_PROCESS == "NeedsProcess"
MJM_LEADS_GMAIL_LABEL_DONE_PROCESS == "DoneProcess"

\* thread.getMessages()
LeadMessagesOf(t) == SelectSeq([m \in DOMAIN leadThread |-> m], LAMBDA m : leadThread[m] = t)

\* needsProcessLabel.getThreads(0, LEADS_THREAD_LIMIT_PER_RUN)
RECURSIVE SeqOfThreads(_)
SeqOfThreads(S) ==
  IF S = {} THEN <<>>
  ELSE LET t == CHOOSE x \in S : \A y \in S : x <= y
       IN <<t>> \o SeqOfThreads(S \ {t})

NeedsProcessThreads ==
  LET all == SeqOfThreads({t \in LeadThreads : MJM_LEADS_GMAIL_LABEL_NEEDS_PROCESS \in leadLabels[t]})
  IN SubSeq(all, 1, IF Len(all) < LEADS_THREAD_LIMIT_PER_RUN
                    THEN Len(all) ELSE LEADS_THREAD_LIMIT_PER_RUN)

\* MJM_Leads_getProcessedEmailIdsFromSheet: every non-empty "Source Email ID"
\* of the sheet, whatever the row's status.
MJM_Leads_getProcessedEmailIdsFromSheet(sheetRows) == {r.id : r \in sheetRows}

NoLeadsRun ==
  [pc |-> "idle", processedEmailIds |-> {}, threadsToProcess |-> <<>>, t |-> 1,
   messagesInThread |-> <<>>, i |-> 1, messagesProcessedThisRunCount |-> 0,
   newMessagesFoundInThread |-> FALSE,
   allMessagesInThreadProcessedSuccessfullyThisRun |-> TRUE]

\* A lead e-mail arrives in thread t; the user's Gmail filter labels the
\* thread NeedsProcess.  The second thread takes the earliest messages only.
LeadArrive(t) ==
  /\ leadsRun.pc = "idle"
  /\ Len(leadThread) < MaxLeadMsgs
  /\ t = 2 => Len(leadThread) < MaxSecondThread
  /\ leadThread' = Append(leadThread, t)
  /\ leadLabels' = [leadLabels EXCEPT ![t] = @ \cup {MJM_LEADS_GMAIL_LABEL_NEEDS_PROCESS}]
  /\ leadHandled' = Append(leadHandled, "none")
  /\ UNCHANGED <<leadRows, leadsRun>>
  /\ UNCHANGED <<coreVars, triggerVars, gemini, sweep>>

\* The run starts: the processed ids are preloaded (an exception of the
\* read is caught and leaves the set empty) and the threads are listed.
LeadsStartWith(preloadOk) ==
  /\ leadsRun.pc = "idle"
  /\ leadsRun' = [NoLeadsRun EXCEPT
                    !.pc = "threads",
                    !.processedEmailIds =
                       IF preloadOk
                       THEN MJM_Leads_getProcessedEmailIdsFromSheet(leadRows)
                       ELSE {},
                    !.threadsToProcess = NeedsProcessThreads]
  /\ UNCHANGED <<leadThread, leadLabels, leadRows, leadHandled>>
  /\ UNCHANGED <<coreVars, triggerVars, gemini, sweep>>

LeadsBudgetReached ==
  leadsRun.messagesProcessedThisRunCount >= LEADS_MESSAGES_TO_PROCESS_PER_RUN

\* The thread loop takes the next thread.
LeadsThreadBegin ==
  /\ leadsRun.pc = "threads"
  /\ leadsRun.t <= Len(leadsRun.threadsToProcess)
  /\ ~LeadsBudgetReached
  /\ leadsRun' = [leadsRun EXCEPT
                    !.pc = "messages",
                    !.messagesInThread = LeadMessagesOf(leadsRun.threadsToProcess[leadsRun.t]),
                    !.i = 1,
                    !.newMessagesFoundInThread = FALSE,
                    !.allMessagesInThreadProcessedSuccessfullyThisRun = TRUE]
  /\ UNCHANGED <<leadThread, leadLabels, leadRows, leadHandled>>
  /\ UNCHANGED <<coreVars, triggerVars, gemini, sweep>>

\* The thread loop ends: no thread is left, the message budget is used up,
\* or the run time is over 320 s.
LeadsFinish(elapsedOver) ==
  /\ leadsRun.pc = "threads"
  /\ \/ leadsRun.t > Len(leadsRun.threadsToProcess)
     \/ LeadsBudgetReached
     \/ elapsedOver
  /\ leadsRun' = NoLeadsRun
  /\ UNCHANGED <<leadThread, leadLabels, leadRows, leadHandled>>
  /\ UNCHANGED <<coreVars, triggerVars, gemini, sweep>>

LeadsAtMessage ==
  /\ leadsRun.pc = "messages"
  /\ leadsRun.i <= Len(leadsRun.messagesInThread)
  /\ ~LeadsBudgetReached

\* processedEmailIds.has(messageId): continue
LeadsSkip ==
  /\ LeadsAtMessage
  /\ leadsRun.messagesInThread[leadsRun.i] \in leadsRun.processedEmailIds
  /\ leadsRun' = [leadsRun EXCEPT !.i = @ + 1]
  /\ UNCHANGED <<leadThread, leadLabels, leadRows, leadHandled>>
  /\ UNCHANGED <<coreVars, triggerVars, gemini, sweep>>

\* A new message is processed.  outcome: "jobs" (rows written), "nojobs"
\* (empty body, no listing, or only N/A titles: nothing written), "fail"
\* (the extractor failed or an exception was caught: an error row is
\* appended, unless appendRow throws as well).
LeadsProcess(outcome, errorRowOk) ==
  /\ LeadsAtMessage
  /\ LET messageId == leadsRun.messagesInThread[leadsRun.i]
         currentMessageOutcomeSuccess == outcome # "fail"
     IN /\ messageId \notin leadsRun.processedEmailIds
        /\ outcome # "jobs" => messageId <= MaxLeadFail
        /\ errorRowOk \/ outcome = "fail"
        /\ leadRows' =
             IF outcome = "jobs" THEN leadRows \cup {[id |-> messageId, status |-> "New"]}
             ELSE IF outcome = "fail" /\ errorRowOk
             THEN leadRows \cup {[id |-> messageId, status |-> "Error"]}
             ELSE leadRows
        /\ leadsRun' = [leadsRun EXCEPT
             !.i = @ + 1,
             !.newMessagesFoundInThread = TRUE,
             !.messagesProcessedThisRunCount = @ + 1,
             !.allMessagesInThreadProcessedSuccessfullyThisRun =
                 @ /\ currentMessageOutcomeSuccess,
             !.processedEmailIds =
                 IF currentMessageOutcomeSuccess THEN @ \cup {messageId} ELSE @]
        /\ leadHandled' = [leadHandled EXCEPT ![messageId] =
                             IF currentMessageOutcomeSuccess THEN "ok" ELSE "failed"]
  /\ UNCHANGED <<leadThread, leadLabels>>
  /\ UNCHANGED <<coreVars, triggerVars, gemini, sweep>>

\* The labels of a thread after its message loop.
LeadLabelsAfter(ls, newFound, allOk, n) ==
  IF newFound /\ allOk THEN (ls \ {MJM_LEADS_GMAIL_LABEL_NEEDS_PROCESS}) \cup {MJM_LEADS_GMAIL_LABEL_DONE_PROCESS}
  ELSE IF newFound THEN ls
  ELSE IF n > 0 THEN (ls \ {MJM_LEADS_GMAIL_LABEL_NEEDS_PROCESS}) \cup {MJM_LEADS_GMAIL_LABEL_DONE_PROCESS}
  ELSE ls \ {MJM_LEADS_GMAIL_LABEL_NEEDS_PROCESS}

\* The message loop is left (end of the thread, or budget reached) and the
\* thread is relabelled.
LeadsThreadEnd ==
  /\ leadsRun.pc = "messages"
  /\ leadsRun.i > Len(leadsRun.messagesInThread) \/ LeadsBudgetReached
  /\ LET t == leadsRun.threadsToProcess[leadsRun.t]
     IN leadLabels' = [leadLabels EXCEPT ![t] =
          LeadLabelsAfter(@, leadsRun.newMessagesFoundInThread,
                          leadsRun.allMessagesInThreadProcessedSuccessfullyThisRun,
                          Len(leadsRun.messagesInThread))]
  /\ leadsRun' = [leadsRun EXCEPT !.pc = "threads", !.t = @ + 1]
  /\ UNCHANGED <<leadThread, leadRows, leadHandled>>
  /\ UNCHANGED <<coreVars, triggerVars, gemini, sweep>>

MJM_processJobLeads ==
  \/ \E preloadOk \in BOOLEAN : LeadsStartWith(preloadOk)
  \/ LeadsThreadBegin
  \/ \E elapsedOver \in BOOLEAN : LeadsFinish(elapsedOver)
  \/ LeadsSkip
  \/ \E outcome \in {"jobs", "nojobs", "fail"}, errorRowOk \in BOOLEAN :
       LeadsProcess(outcome, errorRowOk)
  \/ LeadsThreadEnd

NextLeads ==
  \/ \E t \in LeadThreads : LeadArrive(t)
  \/ MJM_processJobLeads
SpecLeads == Init /\ [][NextLeads]_vars

\* ======================================================================
\* Properties
\* ======================================================================

\* The ranking of the glossary: Applied < Viewed < Assessment < Interview <
\* {Offer, Rejected} < Accepted, the two ambiguous statuses below Applied,
\* statuses without an entry at 0.
ClaimRank(s) ==
  CASE s = MJM_APP_ACCEPTED_STATUS -> 6
    [] s \in {MJM_APP_OFFER_STATUS, MJM_APP_REJECTED_STATUS} -> 5
    [] s = MJM_APP_INTERVIEW_STATUS -> 4
    [] s = MJM_APP_ASSESSMENT_STATUS -> 3
    [] s = MJM_APP_VIEWED_STATUS -> 2
    [] s = MJM_APP_DEFAULT_STATUS -> 1
    [] s = MANUAL_REVIEW_NEEDED_TEXT -> -1
    [] OTHER -> 0

\* A step that is one loop iteration of the given kind.
IterationStep(kind) == idx' = idx + 1 /\ lastStep'.kind = kind

\* The row an update step wrote, before and after.
RowBefore == rows[lastStep'.rowNum - 1]
RowAfter == rows'[lastStep'.rowNum - 1]

\* C1: for each record, no step (event or sweep) lowers the rank of
\* currentStatus unless the incoming status is Rejected or Offer Received or
\* the existing status is Offer Accepted; an Applied or Application Viewed
\* event on a record at Interview Scheduled leaves it at Interview Scheduled.
RankKept ==
  \A i \in DOMAIN rows :
    ClaimRank(rows'[i].status) < ClaimRank(rows[i].status)
    => \/ rows[i].status = MJM_APP_ACCEPTED_STATUS
       \/ /\ IterationStep("update")
          /\ lastStep'.status \in {MJM_APP_REJECTED_STATUS, MJM_APP_OFFER_STATUS}

InterviewKept ==
  (/\ IterationStep("update")
   /\ RowBefore.status = MJM_APP_INTERVIEW_STATUS
   /\ lastStep'.status \in {MJM_APP_VIEWED_STATUS, MJM_APP_DEFAULT_STATUS})
  => RowAfter.status = MJM_APP_INTERVIEW_STATUS

C1_StatusRankNeverDecreases == [][RankKept /\ InterviewKept]_vars

\* Scenario A has happened: a Viewed event was merged into a record that
\* stands at Interview Scheduled.
C1_Witness ==
  /\ pc = "loop"
  /\ lastStep.kind = "update"
  /\ lastStep.status = MJM_APP_VIEWED_STATUS
  /\ rows[lastStep.rowNum - 1].status = MJM_APP_INTERVIEW_STATUS

\* C2: an event merged into an existing record sets currentStatus to the
\* incoming status exactly when (existing is not Offer Accepted or incoming
\* is Offer Accepted) and (newRank >= curRank or incoming is Rejected or
\* Offer Received); otherwise currentStatus stays as it was.
C2_StatusMergeRule ==
  [][IterationStep("update") =>
       LET existing == RowBefore.status
           incoming == lastStep'.status
           takes == /\ (existing # MJM_APP_ACCEPTED_STATUS \/ incoming = MJM_APP_ACCEPTED_STATUS)
                    /\ \/ ClaimRank(incoming) >= ClaimRank(existing)
                       \/ incoming = MJM_APP_REJECTED_STATUS
                       \/ incoming = MJM_APP_OFFER_STATUS
       IN RowAfter.status = IF takes THEN incoming ELSE existing]_vars

\* A Rejected event was merged into a record that had reached Interview
\* Scheduled, and the record now stands at Rejected.
C2_Witness ==
  /\ pc = "loop"
  /\ lastStep.kind = "update"
  /\ lastStep.status = MJM_APP_REJECTED_STATUS
  /\ rows[lastStep.rowNum - 1].status = MJM_APP_REJECTED_STATUS
  /\ rows[lastStep.rowNum - 1].peakStatus = MJM_APP_INTERVIEW_STATUS

\* C3: Offer Accepted is absorbing: no event and no staleness sweep changes
\* a currentStatus that is Offer Accepted.
C3_AcceptedAbsorbing ==
  [][\A i \in DOMAIN rows :
       rows[i].status = MJM_APP_ACCEPTED_STATUS
       => rows'[i].status = MJM_APP_ACCEPTED_STATUS]_vars

\* A Rejected event was merged into a record that stands at Offer Accepted
\* and is older than the staleness threshold.
C3_Witness ==
  /\ pc = "loop"
  /\ lastStep.kind = "update"
  /\ lastStep.status = MJM_APP_REJECTED_STATUS
  /\ rows[lastStep.rowNum - 1].status = MJM_APP_ACCEPTED_STATUS
  /\ rows[lastStep.rowNum - 1].lastUpdate < now - MJM_STALE_WEEKS_THRESHOLD

\* C4: the rank of peakStatus never decreases, and peakStatus is never one
\* of Rejected, Offer Accepted, 'N/A - Manual Review', 'Update/Other'.
C4_PeakMonotoneNeverExcluded ==
  /\ [](\A i \in DOMAIN rows : rows[i].peakStatus \notin excludedPeak)
  /\ [][\A i \in DOMAIN rows :
          ClaimRank(rows'[i].peakStatus) >= ClaimRank(rows[i].peakStatus)]_vars

\* Scenario B has happened: a Rejected event was merged into a record whose
\* peak is Applied; currentStatus is Rejected, peakStatus still Applied.
C4_Witness ==
  /\ pc = "loop"
  /\ lastStep.kind = "update"
  /\ lastStep.status = MJM_APP_REJECTED_STATUS
  /\ rows[lastStep.rowNum - 1].status = MJM_APP_REJECTED_STATUS
  /\ rows[lastStep.rowNum - 1].peakStatus = MJM_APP_DEFAULT_STATUS

\* C5: peakStatus is the highest-ranked status outside the excluded set
\* among all event statuses observed for the record (Applied when there is
\* none), also for events whose status did not become currentStatus.  Stated
\* for records whose best observed status is one of the hierarchy.
C5_PeakIsHighestObserved ==
  \A i \in DOMAIN rows :
    observedPeak[i] \in (DOMAIN MJM_APP_STATUS_HIERARCHY) \cup {"none"}
    => rows[i].peakStatus =
         IF observedPeak[i] = "none" THEN MJM_APP_DEFAULT_STATUS ELSE observedPeak[i]

\* C6: a message reconciled into the sheet in an earlier run is never
\* reconciled (row update or row append) again.
C6_ReconciledAtMostOnce ==
  [][(writtenThisRun' \ writtenThisRun) \cap reconciledEver = {}]_vars

\* The unseen messages of thread t collected by the current run.
UnseenOf(t) == {m \in SeqToSet(newMessagesList) : msgThread[m] = t}

\* C7: a run moves a thread from pending to done only if every unseen
\* message of the thread was reconciled without error in that run.
PendingToDone(t) ==
  /\ pc = "labels"
  /\ MJM_TRACKER_GMAIL_LABEL_TO_PROCESS \in labels[t]
  /\ MJM_TRACKER_GMAIL_LABEL_TO_PROCESS \notin labels'[t]
  /\ threadProcessingOutcomesMap[t] = "done"
  /\ MJM_TRACKER_GMAIL_LABEL_PROCESSED \in labels'[t]

C7_DoneOnlyIfAllReconciled ==
  [][\A t \in Threads : PendingToDone(t) => UnseenOf(t) \subseteq writtenThisRun]_vars

\* C8: needs-review is sticky: within a run an outcome of 'manual' stays,
\* and no run gives the done label to a thread that carries the
\* needs-review label, nor the needs-review label to a thread that is done.
OutcomeSticky(t) ==
  (pc = "loop" /\ threadProcessingOutcomesMap[t] = "manual")
  => threadProcessingOutcomesMap'[t] = "manual"

NeedsReviewNeverDone(t) ==
  (/\ MJM_TRACKER_GMAIL_LABEL_MANUAL_REVIEW \in labels[t]
   /\ MJM_TRACKER_GMAIL_LABEL_PROCESSED \notin labels[t])
  => MJM_TRACKER_GMAIL_LABEL_PROCESSED \notin labels'[t]

DoneNeverNeedsReview(t) ==
  (/\ MJM_TRACKER_GMAIL_LABEL_PROCESSED \in labels[t]
   /\ MJM_TRACKER_GMAIL_LABEL_MANUAL_REVIEW \notin labels[t])
  => MJM_TRACKER_GMAIL_LABEL_MANUAL_REVIEW \notin labels'[t]

C8_NeedsReviewSticky ==
  [][\A t \in Threads :
       OutcomeSticky(t) /\ NeedsReviewNeverDone(t) /\ DoneNeverNeedsReview(t)]_vars

\* C9: after a run, every thread the run labelled carries at most one of
\* the three workflow labels.
C9_LabelsMutuallyExclusive ==
  [][(pc = "labels" /\ pc' = "idle") =>
       \A t \in Threads :
         threadProcessingOutcomesMap[t] # "none"
         => Cardinality(labels'[t] \cap WorkflowLabels) <= 1]_vars

\* C10: when an iteration throws, no row is changed or lost, the thread's
\* outcome is 'manual' and stays so for the rest of the run, no other
\* thread's outcome changes, the loop goes on; the label pass then never
\* gives the thread the done label, and gives it the needs-review label
\* (unless Gmail's addLabel itself fails, which adds nothing).
ThrowIsolated ==
  IterationStep("throw") =>
    /\ rows' = rows
    /\ pc' = "loop"
    /\ threadProcessingOutcomesMap'[msgThread[lastStep'.msg]] = "manual"
    /\ \A u \in Threads \ {msgThread[lastStep'.msg]} :
         threadProcessingOutcomesMap'[u] = threadProcessingOutcomesMap[u]

FailedThreadLabelled ==
  (pc = "labels" /\ pc' = "idle") =>
    \A m \in failedThisRun :
      /\ MJM_TRACKER_GMAIL_LABEL_PROCESSED \in labels'[msgThread[m]]
         => MJM_TRACKER_GMAIL_LABEL_PROCESSED \in labels[msgThread[m]]
      /\ \/ MJM_TRACKER_GMAIL_LABEL_MANUAL_REVIEW \in labels'[msgThread[m]]
         \/ labels'[msgThread[m]] \subseteq labels[msgThread[m]]

C10_WriteFailureIsolated ==
  /\ [](\A m \in failedThisRun : threadProcessingOutcomesMap[msgThread[m]] = "manual")
  /\ [][ThrowIsolated /\ FailedThreadLabelled]_vars

\* Scenario E with a second thread: in one run a message was written, a
\* later message of the same thread threw, and after that a message of the
\* other thread was written and that thread's outcome is 'done'.
C10_Witness ==
  /\ pc = "loop"
  /\ lastStep.kind \in {"update", "append"}
  /\ \E m1 \in writtenThisRun, m2 \in failedThisRun :
       /\ msgThread[m1] = msgThread[m2]
       /\ m1 < m2
       /\ m2 < lastStep.msg
       /\ msgThread[lastStep.msg] # msgThread[m2]
       /\ threadProcessingOutcomesMap[msgThread[m2]] = "manual"
       /\ threadProcessingOutcomesMap[msgThread[lastStep.msg]] = "done"

\* The entries the run's index holds for the event's company.
IndexOf(ev) ==
  IF ev.extractedCompany = MANUAL_REVIEW_NEEDED_TEXT THEN {}
  ELSE SeqToSet(applicationDataCache[toLowerCase(ev.extractedCompany)])

\* The index entries whose title is the event's (known) title.
SameTitle(ev) ==
  {e \in IndexOf(ev) :
     /\ ev.extractedTitle # MANUAL_REVIEW_NEEDED_TEXT
     /\ toLowerCase(e.title) = toLowerCase(ev.extractedTitle)}

\* The record chosen by the step is the one the rule names: a record with
\* the event's title, else a record of the company with the latest update.
ChosenAsSpecified(ev) ==
  LET chosen == lastStep'.rowNum
  IN /\ IndexOf(ev) # {}
     /\ IF SameTitle(ev) # {}
        THEN chosen \in {e.rowNum : e \in SameTitle(ev)}
        ELSE /\ chosen \in {e.rowNum : e \in IndexOf(ev)}
             /\ \A e \in IndexOf(ev) :
                  rows[chosen - 1].lastUpdate >= rows[e.rowNum - 1].lastUpdate

\* C11: an event merged into a record is merged into the record of its
\* lower-cased company whose title equals the event's known title if there
\* is one, else into the most recently updated record of that company; an
\* event is appended as a new record only when its company is unresolved
\* or the index holds no record of the company.
C11_IdentityResolution ==
  [][\A ev \in IdentityEvents :
       /\ ReconcileUpdate(ev) => ChosenAsSpecified(ev)
       /\ ReconcileAppend(ev) => IndexOf(ev) = {}]_vars

\* C12: an event merged into an existing record changes company (title)
\* only if the stored company (title) was 'N/A - Manual Review' and the new
\* value is resolved; a stored resolved value is never replaced by another.
C12_ResolvedFieldsKept ==
  [][IterationStep("update") =>
       /\ RowAfter.company # RowBefore.company
          => (/\ RowBefore.company = MANUAL_REVIEW_NEEDED_TEXT
              /\ RowAfter.company # MANUAL_REVIEW_NEEDED_TEXT)
       /\ RowAfter.title # RowBefore.title
          => (/\ RowBefore.title = MANUAL_REVIEW_NEEDED_TEXT
              /\ RowAfter.title # MANUAL_REVIEW_NEEDED_TEXT)]_vars

\* Every record with a resolved company is in the run's index (the preload
\* succeeded, or the record was written in this run).
IndexLoaded ==
  \A i \in DOMAIN rows :
    rows[i].company # MANUAL_REVIEW_NEEDED_TEXT
    => \E e \in SeqToSet(applicationDataCache[toLowerCase(rows[i].company)]) :
         e.rowNum = i + 1

\* The record awaits a value the event supplies: one of company and title
\* is unresolved, the other is the event's.
AwaitsValuesOf(row, ev) ==
  \/ /\ row.company = MANUAL_REVIEW_NEEDED_TEXT
     /\ toLowerCase(row.title) = toLowerCase(ev.extractedTitle)
  \/ /\ row.title = MANUAL_REVIEW_NEEDED_TEXT
     /\ toLowerCase(row.company) = toLowerCase(ev.extractedCompany)

Resolved(old, new) == IF old = MANUAL_REVIEW_NEEDED_TEXT THEN new ELSE old

RoundTrip(ev) ==
  (/\ ReconcileUpdate(ev) \/ ReconcileAppend(ev)
   /\ ~ev.needsManualReviewFlag
   /\ IndexLoaded
   /\ Len(rows) = 1
   /\ AwaitsValuesOf(rows[1], ev))
  => /\ Len(rows') = 1
     /\ rows'[1].company = Resolved(rows[1].company, ev.extractedCompany)
     /\ rows'[1].title = Resolved(rows[1].title, ev.extractedTitle)

\* C13: when the sheet holds one record with an unresolved company or an
\* unresolved title and a later event for that application carries resolved
\* values, the event is merged into that record (no record is added), the
\* unresolved field takes the event's value and the resolved field stays.
C13_ManualReviewRoundTrip ==
  [][\A ev \in IdentityEvents : RoundTrip(ev)]_vars

\* C14: a step that creates a record appends exactly one row and leaves
\* the others as they were; the new record's currentStatus is the event's
\* status, its peakStatus is that status unless it is Rejected, Offer
\* Accepted, 'N/A - Manual Review' or 'Update/Other', and then Applied; the
\* run's index holds the new record under its lower-cased company.
CreatedRow == rows'[Len(rows')]

PrimaryElseFallback(called, primary, fallbackValue) ==
  IF called /\ primary # MANUAL_REVIEW_NEEDED_TEXT THEN primary ELSE fallbackValue

ComposedPerField ==
  lastStep.kind = "compose" =>
    /\ lastStep.ev.extractedCompany =
         PrimaryElseFallback(lastStep.g.called, lastStep.g.company, lastStep.rx.company)
    /\ lastStep.ev.extractedTitle =
         PrimaryElseFallback(lastStep.g.called, lastStep.g.title, lastStep.rx.title)

CreatedPerField ==
  (lastStep.kind = "compose" /\ IterationStep("append")) =>
    /\ CreatedRow.company =
         PrimaryElseFallback(lastStep.g.called, lastStep.g.company, lastStep.rx.company)
    /\ CreatedRow.title =
         PrimaryElseFallback(lastStep.g.called, lastStep.g.title, lastStep.rx.title)

\* C15: company and title are composed independently: each is the primary
\* extractor's value when the primary ran and resolved it, else the
\* fallback's value; the record created from the message carries them.
C15_PerFieldComposition ==
  /\ []ComposedPerField
  /\ [][CreatedPerField]_vars

\* Scenario D with a title the primary did resolve: the primary leaves the
\* company unresolved and names the title, the fallback names both; the
\* composed event has the fallback's company and the primary's title.
C15_Witness ==
  /\ lastStep.kind = "compose"
  /\ lastStep.g.called
  /\ lastStep.g.company = MANUAL_REVIEW_NEEDED_TEXT
  /\ lastStep.g.title = "Engineer"
  /\ lastStep.rx.company = "ACME"
  /\ lastStep.rx.title = "Analyst"
  /\ lastStep.ev.extractedCompany = "ACME"
  /\ lastStep.ev.extractedTitle = "Engineer"

\* C16: when the primary extractor resolves no status (not run, or its
\* status is 'N/A - Manual Review' or 'Update/Other') and the keyword
\* fallback finds none, the status handed to the reconciler is 'Applied'.
C16_StatusDefaulting ==
  (/\ lastStep.kind = "compose"
   /\ \/ ~lastStep.g.called
      \/ lastStep.g.status \in {MANUAL_REVIEW_NEEDED_TEXT, UPDATE_OTHER}
   /\ lastStep.rs = NULL)
  => lastStep.ev.finalStatusToLog = MJM_APP_DEFAULT_STATUS

\* The records the sweep is to close, in the rule's own words.
ToBeClosed(row) ==
  /\ row.status # ""
  /\ row.status \notin {"Rejected", "Offer Accepted", "Withdrawn"}
  /\ row.status # "N/A - Manual Review"
  /\ row.lastUpdate # NoDate
  /\ row.lastUpdate < now - MJM_STALE_WEEKS_THRESHOLD

ClosedExactly ==
  /\ DOMAIN rows' = DOMAIN rows
  /\ \A i \in DOMAIN rows :
       rows'[i] = IF ToBeClosed(rows[i])
                  THEN [rows[i] EXCEPT !.status = "Rejected", !.lastUpdate = now]
                  ELSE rows[i]

\* C17: a sweep whose write goes through changes exactly the records whose
\* status is non-empty, not Rejected / Offer Accepted / Withdrawn, not
\* 'N/A - Manual Review', and whose last update is a valid date strictly
\* older than now minus 7 weeks; such a record gets status Rejected and last
\* update now.  A record dated exactly at the threshold, or without a valid
\* date, is left alone; a sweep whose write fails changes nothing.
C17_SweepExactness ==
  /\ [][MarkStaleWith(TRUE) => ClosedExactly]_vars
  /\ [][MarkStaleWith(FALSE) => rows' = rows]_vars

\* Scenario C next to the boundary: eight weeks after the last message, a
\* sweep has closed one record (Rejected, stamped now, peak Applied) and
\* left alone a record without a date.
C17_Witness ==
  /\ pc = "idle"
  /\ now = MJM_STALE_WEEKS_THRESHOLD + 1
  /\ \A m \in DOMAIN msgDate : msgDate[m] = 0
  /\ \E i, j \in DOMAIN rows :
       /\ rows[i].status = MJM_APP_REJECTED_STATUS
       /\ rows[i].peakStatus = MJM_APP_DEFAULT_STATUS
       /\ rows[i].lastUpdate = now
       /\ rows[j].status = MJM_APP_DEFAULT_STATUS
       /\ rows[j].lastUpdate = NoDate

\* After a sweep whose write went through, no record is stale any more: a
\* second sweep at the same instant marks nothing and writes nothing.
SecondSweepIdle ==
  /\ ~SweepWrites(rows', now')
  /\ [i \in DOMAIN rows' |-> SweptRow(rows'[i], now')] = rows'

\* C18: the sweep is idempotent: a sweep right after a sweep, with no time
\* elapsed and no event in between, changes no record and performs no
\* write.
C18_SweepIdempotent ==
  [][MarkStaleWith(TRUE) => SecondSweepIdle]_vars

\* A sweep has closed two records at once, seven weeks and more after their
\* last update; nothing is left for a second sweep.
C18_Witness ==
  /\ pc = "idle"
  /\ Len(rows) = 2
  /\ \A i \in DOMAIN rows :
       /\ rows[i].status = MJM_APP_REJECTED_STATUS
       /\ rows[i].lastUpdate = now
  /\ \A m \in DOMAIN msgDate : msgDate[m] < now - MJM_STALE_WEEKS_THRESHOLD
  /\ ~SweepWrites(rows, now)

\* C19: in every reachable state the status of every record is one of
\* Applied, Application Viewed, Assessment/Screening, Interview Scheduled,
\* Offer Received, Rejected, Offer Accepted, 'N/A - Manual Review' and
\* 'Update/Other', whatever status the primary extractor returned.
C19_StatusInClosedEnum ==
  \A i \in DOMAIN rows :
    rows[i].status \in {"Applied", "Application Viewed", "Assessment/Screening",
                        "Interview Scheduled", "Offer Received", "Rejected",
                        "Offer Accepted", "N/A - Manual Review", "Update/Other"}

AbortStep == pc = "aborted" \/ pc' = "aborted"

LabelUpdateApplied(t) ==
  /\ MJM_TRACKER_GMAIL_LABEL_TO_PROCESS \notin labels'[t]
  /\ \/ MJM_TRACKER_GMAIL_LABEL_PROCESSED \in labels'[t]
     \/ MJM_TRACKER_GMAIL_LABEL_MANUAL_REVIEW \in labels'[t]

Reconciling == rows' # rows \/ reconciledEver' # reconciledEver

\* C22: a run reconciles at most 20 messages; the step that stops the loop
\* on a breached budget reconciles nothing itself, and after it (or once 20
\* messages are counted) no message is reconciled in the run; the label
\* pass that follows handles every thread with a processed message.
C22_PerRunBudgets ==
  /\ [](processedMessagesCountThisRun <= 20 /\ Cardinality(writtenThisRun) <= 20)
  /\ [][(pc = "loop" /\ pc' = "labels") => ~Reconciling]_vars
  /\ [][(pc = "labels" \/ (pc = "loop" /\ processedMessagesCountThisRun >= 20))
          => ~Reconciling]_vars
  /\ [][(pc = "labels" /\ pc' = "idle") =>
          \A t \in Threads :
            threadProcessingOutcomesMap[t] # "none" => LabelUpdateApplied(t)]_vars

\* A run collected 21 messages, reconciled 20 of them and stopped on the
\* message budget with one message left.
C22_Witness ==
  /\ pc = "labels"
  /\ processedMessagesCountThisRun = 20
  /\ Cardinality(writtenThisRun) = 20
  /\ Len(newMessagesList) = 21
  /\ idx = 21
  /\ threadProcessingOutcomesMap[1] = "done"

\* C25: the sheet never holds two records with the same lower-cased
\* resolved company.
C25_OneRecordPerCompany ==
  \A i, j \in DOMAIN rows :
    (/\ rows[i].company # MANUAL_REVIEW_NEEDED_TEXT
     /\ toLowerCase(rows[i].company) = toLowerCase(rows[j].company))
    => i = j

HierarchyStatuses ==
  {"N/A - Manual Review", "Update/Other", "Applied", "Application Viewed",
   "Assessment/Screening", "Interview Scheduled", "Offer Received", "Rejected",
   "Offer Accepted"}

RankNeverLowered ==
  \A i \in DOMAIN rows :
    (rows[i].status \in HierarchyStatuses /\ rows'[i].status \in HierarchyStatuses)
    => ClaimRank(rows'[i].status) >= ClaimRank(rows[i].status)

RejectedNotReopened ==
  \A i \in DOMAIN rows :
    (rows[i].status = "Rejected" /\ rows'[i].status # "Rejected")
    => /\ IterationStep("update")
       /\ lastStep'.rowNum = i + 1
       /\ lastStep'.status \in {"Offer Received", "Offer Accepted"}

\* C26: over all reconciliations and sweeps, in any order, the rank of a
\* record's status never decreases between statuses of the hierarchy table;
\* a record at Rejected leaves Rejected only by an Offer Received or Offer
\* Accepted event, never by an Applied, Viewed, Assessment or Interview
\* event.
C26_RankMonotone == [][RankNeverLowered /\ RejectedNotReopened]_vars

\* An Interview event, dated before the sweep, was merged into a record
\* that the sweep had closed: the record is still Rejected and still
\* carries the sweep's time stamp.
C26_Witness ==
  /\ pc = "loop"
  /\ lastStep.kind = "update"
  /\ lastStep.status = MJM_APP_INTERVIEW_STATUS
  /\ rows[lastStep.rowNum - 1].status = MJM_APP_REJECTED_STATUS
  /\ rows[lastStep.rowNum - 1].lastUpdate = now
  /\ \A m \in reconciledEver : msgDate[m] < now

\* The composed event of the iteration has both company and title.
EventResolved ==
  /\ lastStep.ev.extractedCompany # "N/A - Manual Review"
  /\ lastStep.ev.extractedTitle # "N/A - Manual Review"

\* After the iteration of a message the thread's outcome is 'done' when the
\* message was written, its event was resolved and no earlier message of
\* the thread made the outcome 'manual'; otherwise it is 'manual'.
OutcomeAsSpecified ==
  (lastStep.kind = "compose" /\ idx' = idx + 1) =>
    LET t == msgThread[lastStep.msg]
    IN threadProcessingOutcomesMap'[t] =
         IF /\ lastStep'.kind \in {"update", "append"}
            /\ EventResolved
            /\ threadProcessingOutcomesMap[t] # "manual"
         THEN "done" ELSE "manual"

\* A thread has an outcome exactly when one of its messages was processed.
OutcomeIffProcessed ==
  pc \in {"loop", "labels"} =>
    \A t \in Threads :
      threadProcessingOutcomesMap[t] # "none"
      <=> \E m \in writtenThisRun \cup failedThisRun : msgThread[m] = t

\* The label pass adds the label of the outcome and not the other one.
LabelAsOutcome ==
  (pc = "labels" /\ pc' = "idle") =>
    \A t \in Threads :
      LET added == labels'[t] \ labels[t]
      IN /\ threadProcessingOutcomesMap[t] = "none" => labels'[t] = labels[t]
         /\ threadProcessingOutcomesMap[t] = "done" =>
              /\ MJM_TRACKER_GMAIL_LABEL_PROCESSED \in labels'[t]
              /\ MJM_TRACKER_GMAIL_LABEL_MANUAL_REVIEW \notin added
         /\ threadProcessingOutcomesMap[t] = "manual" =>
              /\ MJM_TRACKER_GMAIL_LABEL_MANUAL_REVIEW \in labels'[t]
              /\ MJM_TRACKER_GMAIL_LABEL_PROCESSED \notin added

\* C27: the run gives a thread the done label exactly when every processed
\* message of the thread was written without error with company and title
\* both resolved; a message written with an unresolved company or title
\* makes the thread needs-review.
C27_ThreadOutcome ==
  /\ []OutcomeIffProcessed
  /\ [][OutcomeAsSpecified /\ LabelAsOutcome]_vars

\* A record was created from a message whose title stayed unresolved after
\* both tiers; the write succeeded and the thread's outcome is 'manual'.
C27_Witness ==
  /\ pc = "loop"
  /\ lastStep.kind = "append"
  /\ lastStep.msg \in writtenThisRun
  /\ rows[lastStep.rowNum - 1].company \in {"Acme", "ACME"}
  /\ rows[lastStep.rowNum - 1].title = MANUAL_REVIEW_NEEDED_TEXT
  /\ threadProcessingOutcomesMap[msgThread[lastStep.msg]] = "manual"

\* The run's list holds each unseen message of the pulled threads once, in
\* non-decreasing order of date.
ListedOnceByDate ==
  pc \in {"loop", "labels"} =>
    /\ \A i, j \in DOMAIN newMessagesList :
         i < j => /\ msgDate[newMessagesList[i]] <= msgDate[newMessagesList[j]]
                  /\ newMessagesList[i] # newMessagesList[j]
    /\ \A m \in writtenThisRun :
         \E i \in 1..(idx - 1) : newMessagesList[i] = m

\* The loop takes the list in order, one message per iteration.
TakenInOrder ==
  (pc = "loop" /\ idx' = idx + 1) => lastStep'.msg = newMessagesList[idx]

MergedRowCarriesMessage ==
  IterationStep("update") => RowAfter.emailId = lastStep'.msg

MergedRowKeepsLaterDate ==
  IterationStep("update") =>
    RowAfter.lastUpdate =
      IF RowBefore.lastUpdate > msgDate[lastStep'.msg]
      THEN RowBefore.lastUpdate ELSE msgDate[lastStep'.msg]

\* C29, amended: within a run the unseen messages of all pulled threads are
\* reconciled once each, in non-decreasing order of date whatever their
\* threads; a record's source message id is that of the last message merged
\* into it, and its last update is the later of its previous last update
\* and that message's date.
C29_OrderedByDate ==
  /\ []ListedOnceByDate
  /\ [][TakenInOrder /\ MergedRowCarriesMessage /\ MergedRowKeepsLaterDate]_vars

\* C29 as stated: after a message is merged, the record's last update and
\* source message id are that message's.
C29_LastEventIsLatestMerged ==
  [][IterationStep("update") =>
       /\ RowAfter.emailId = lastStep'.msg
       /\ RowAfter.lastUpdate = msgDate[lastStep'.msg]]_vars

\* A run has reconciled an older message of thread 2 before a newer message
\* of thread 1; the record carries the newer message's id and date.
C29_Witness ==
  /\ pc = "loop"
  /\ Len(newMessagesList) = 2
  /\ idx = 3
  /\ msgThread[newMessagesList[1]] = 2
  /\ msgThread[newMessagesList[2]] = 1
  /\ msgDate[newMessagesList[1]] < msgDate[newMessagesList[2]]
  /\ lastStep.kind = "update"
  /\ rows[lastStep.rowNum - 1].emailId = newMessagesList[2]
  /\ rows[lastStep.rowNum - 1].lastUpdate = msgDate[newMessagesList[2]]

SweepFrame ==
  MJM_markStaleApplicationsAsRejected =>
    /\ Len(rows') = Len(rows)
    /\ \A i \in DOMAIN rows :
         /\ rows'[i].company = rows[i].company
         /\ rows'[i].title = rows[i].title
         /\ rows'[i].peakStatus = rows[i].peakStatus
         /\ rows'[i].emailId = rows[i].emailId
         /\ ~ToBeClosed(rows[i]) => rows'[i] = rows[i]

NothingStaleNoWrite ==
  (pc = "idle" /\ \A i \in DOMAIN rows : ~ToBeClosed(rows[i]))
  => ~SweepWrites(rows, now)

\* C30: a sweep adds and deletes no record; it leaves company, title, peak
\* status and source message id of every record, and every field of a
\* record that is not stale, as they were; with no stale record it does not
\* write the sheet.
C30_SweepFrame ==
  /\ [][SweepFrame]_vars
  /\ []NothingStaleNoWrite

\* A sweep has closed a record that had reached Interview Scheduled: status
\* Rejected, stamped now, peak still Interview Scheduled.
C30_Witness ==
  /\ pc = "idle"
  /\ \E i \in DOMAIN rows :
       /\ rows[i].status = MJM_APP_REJECTED_STATUS
       /\ rows[i].peakStatus = MJM_APP_INTERVIEW_STATUS
       /\ rows[i].lastUpdate = now
       /\ rows[i].emailId \in DOMAIN msgDate
       /\ msgDate[rows[i].emailId] < now - MJM_STALE_WEEKS_THRESHOLD
  /\ \A m \in DOMAIN msgDate : msgDate[m] < now

\* The number of clock triggers whose handler is h.
ClockCount(h) ==
  Cardinality({i \in DOMAIN triggers :
                 triggers[i].handler = h /\ triggers[i].source = "CLOCK"})

\* C21: whatever setup calls were made, in any order and number, every
\* handler has at most one clock trigger, and exactly one right after a
\* setup call for it that did not fail.
C21_TriggerSetupIdempotent ==
  /\ \A h \in Handlers : ClockCount(h) <= 1
  /\ (lastSetup.fn \in {"hourly", "daily"} /\ lastSetup.ok)
       => ClockCount(lastSetup.handler) = 1

\* The hourly setup was called for a handler that had a daily clock trigger
\* and a spreadsheet trigger: it created nothing, one clock trigger stands.
C21_Witness ==
  /\ lastSetup = [fn |-> "hourly", handler |-> "MJM_markStaleApplicationsAsRejected",
                  ok |-> TRUE]
  /\ \E i, j \in DOMAIN triggers :
       /\ triggers[i] = [handler |-> "MJM_markStaleApplicationsAsRejected",
                         source |-> "CLOCK", every |-> "days"]
       /\ triggers[j] = [handler |-> "MJM_markStaleApplicationsAsRejected",
                         source |-> "SPREADSHEETS", every |-> "open"]
  /\ ClockCount("MJM_markStaleApplicationsAsRejected") = 1

\* ---------------------------------------------------------------- C23
RateLimited(r) == r.rc = 429
TransportException(r) == r.rc = 0

\* The call is over without a response that carried fields or a block.
Exhausted ==
  /\ gemini.pc = "returned"
  /\ LET last == gemini.responses[Len(gemini.responses)]
     IN ~(last.rc = 200 /\ last.body \in {"fields", "blocked"})

AtMostTwoRequests == Len(gemini.responses) <= 2

SecondOnlyAfterRateLimitOrTransport ==
  Len(gemini.responses) >= 2 =>
    RateLimited(gemini.responses[1]) \/ TransportException(gemini.responses[1])

ExhaustedReturnsUnresolved == Exhausted => gemini.result = DefaultResult

\* C23: for one message the primary extractor is requested at most 2 times;
\* a second request is made only after a rate-limit (429) response or a
\* transport exception on the first, never after a content error (HTTP 200
\* with missing or unparsable content) or another HTTP error; an exhausted
\* call returns the all-unresolved result.
C23_ExtractorRetry ==
  /\ AtMostTwoRequests
  /\ SecondOnlyAfterRateLimitOrTransport
  /\ ExhaustedReturnsUnresolved

\* ---------------------------------------------------------------- C24
\* What the sweep's write leaves of the record that stood in row i.
KeptOrClosed(i) ==
  rows'[i] \in {rows[i], SweptRow(rows[i], sweep.currentDate)}

\* C24: for every interleaving of a sweep run (read all rows, later write
\* them back) with an e-mail run, the sweep's write leaves every record as
\* the e-mail run last wrote it, or closes that record as stale: no update
\* or append of the e-mail run is lost, and no final status is lowered.
C24_NoLostUpdate ==
  [][(\E writeOk \in BOOLEAN : SweepWriteBack(writeOk)) =>
       /\ Len(rows') = Len(rows)
       /\ \A i \in DOMAIN rows : KeptOrClosed(i)]_vars

\* ---------------------------------------------------------------- C28
\* A thread whose message loop met a failure keeps its labels in that run.
FailedThreadStays ==
  (LeadsThreadEnd /\ ~leadsRun.allMessagesInThreadProcessedSuccessfullyThisRun)
    => leadLabels' = leadLabels

\* A message is skipped as already processed only after it was processed
\* successfully: a failed message is processed again.
FailedMessageRetried ==
  LeadsSkip => leadHandled[leadsRun.messagesInThread[leadsRun.i]] = "ok"

\* A thread receives DoneProcess only when every message in it has been
\* processed successfully.
DoneOnlyWhenAllProcessed ==
  \A t \in LeadThreads :
    (MJM_LEADS_GMAIL_LABEL_DONE_PROCESS \in leadLabels'[t] /\ leadLabels'[t] # leadLabels[t]) =>
      \A m \in DOMAIN leadThread : leadThread[m] = t => leadHandled'[m] = "ok"

\* C28: a thread in which a new message failed is not moved out of
\* NeedsProcess in that run, and the failed message is processed again in
\* the next run; a thread is moved to DoneProcess only when every message
\* in it has been processed successfully, also when the per-run message
\* budget is reached in the middle of the thread.
C28_LeadsThreadOutcome ==
  [][FailedThreadStays /\ FailedMessageRetried /\ DoneOnlyWhenAllProcessed]_vars

====
